---- MODULE Spec2Model ----
(***************************************************************************)
(* Model of dOmega (Walteros & Buchanan, "Why is maximum clique easy in    *)
(* practice?"): degeneracy ordering, complement right-neighbourhood        *)
(* subgraphs, Buss and Nemhauser-Trotter kernels, the k-vertex-cover       *)
(* solver and the threaded parametric search of Clique::findMaxClique.     *)
(*                                                                         *)
(* C++ arrays (std::vector indexed from 0) are functions on 0..n-1; lists  *)
(* grown with push_back, stacks and queues are sequences.                  *)
(***************************************************************************)
EXTENDS Integers, Sequences, FiniteSets, TLC

\* ------------------------------------------------------------------ bounds
MaxN == 4        \* every simple graph on 2..MaxN vertices is an input
MaxThreads == 2  \* numThreads ranges over 1..MaxThreads
MaxSubN == 4     \* kernels / solver are applied to every graph on 0..MaxSubN vertices
MaxK == 4        \* ... with every parameter k up to MaxK

\* ----------------------------------------------------------------- helpers
Min2(a, b) == IF a < b THEN a ELSE b

Range(s) == {s[i] : i \in DOMAIN s}

\* ascending sequence of the elements of a finite set of integers
RECURSIVE SortedSeq(_)
SortedSeq(S) ==
    IF S = {} THEN <<>>
    ELSE LET x == CHOOSE y \in S : \A z \in S : y <= z
         IN <<x>> \o SortedSeq(S \ {x})

\* all two-element subsets of 0..n-1
Pairs(n) == {e \in SUBSET (0..(n - 1)) : Cardinality(e) = 2}

\* ------------------------------------------------------------ Graph::Graph
\* The constructor leaves: n, m, degree, Delta and sorted duplicate-free
\* adjacency lists (EdgeTo[v] is the slice EdgeTo[EdgesBegin[v] ..
\* EdgesBegin[v] + degree[v] - 1] of the source).
Nbrs(E, v) == {w \in UNION E : {v, w} \in E /\ w # v}

MakeGraph(nn, E) ==
    LET deg == [v \in 0..(nn - 1) |-> Cardinality(Nbrs(E, v))]
    IN [n       |-> nn,
        m       |-> Cardinality(E),
        degree  |-> deg,
        Delta   |-> CHOOSE x \in {deg[v] : v \in 0..(nn - 1)} :
                        \A v \in 0..(nn - 1) : deg[v] <= x,
        EdgeTo  |-> [v \in 0..(nn - 1) |-> SortedSeq(Nbrs(E, v))]]

\* ------------------------------------------- Graph::degeneracyOrdering
\* Scratch state of the procedure: rightDegree, ordering, position, buckets,
\* d, cliqueLB, dRegular and verts, where verts[v] is the list of vertex
\* names of subgraphs[v].vertices (pos of an entry = its index).

\* lines 221-225: rightDegree[i] = degree[i]; buckets[rightDegree[i]]++
DOCount(g) ==
    [k \in 0..g.Delta |-> Cardinality({v \in 0..(g.n - 1) : g.degree[v] = k})]

\* lines 230-235: exclusive prefix sums
RECURSIVE DOPrefix(_, _, _, _)
DOPrefix(g, buckets, k, count) ==
    IF k >= g.Delta + 1 THEN buckets
    ELSE DOPrefix(g, [buckets EXCEPT ![k] = count], k + 1, count + buckets[k])

\* lines 237-242: place the vertices bucket by bucket
RECURSIVE DOPlace(_, _, _)
DOPlace(g, st, i) ==
    IF i >= g.n THEN st
    ELSE LET p == st.buckets[st.rightDegree[i]]
         IN DOPlace(g, [st EXCEPT !.position[i] = p,
                                   !.ordering[p] = i,
                                   !.buckets[st.rightDegree[i]] = @ + 1], i + 1)

\* lines 244-248: buckets[k] becomes the first position of bucket k
DOShift(g, buckets) ==
    [k \in 0..g.Delta |-> IF k = 0 THEN 0 ELSE buckets[k - 1]]

\* faulty variant of DOSwap: the neighbour stays where it is
DOSwapNone(st, neighbor, pu) == st

\* lines 322-327 / 340-343: exchange neighbor with the vertex at position pu
DOSwap(st, neighbor, pu) ==
    LET u == st.ordering[pu]
        o1 == [st.ordering EXCEPT ![pu] = neighbor]
        o2 == [o1 EXCEPT ![st.position[neighbor]] = u]
        p1 == [st.position EXCEPT ![u] = st.position[neighbor]]
        p2 == [p1 EXCEPT ![neighbor] = pu]
    IN [st EXCEPT !.ordering = o2, !.position = p2]

\* faulty variant of DONeighbor: a neighbour in the bucket of minV is moved
\* like any other, the start of the bucket below is not set
DONeighborPlain(st, minV, neighbor) ==
    IF st.position[neighbor] > st.position[minV]
    THEN LET s1 == [st EXCEPT !.verts[minV] = Append(@, neighbor)]
             rdn == s1.rightDegree[neighbor]
             pu == s1.buckets[rdn]
             s2 == IF neighbor # s1.ordering[pu]
                   THEN DOSwap(s1, neighbor, pu)
                   ELSE s1
         IN [s2 EXCEPT !.buckets[rdn] = @ + 1,
                       !.rightDegree[neighbor] = @ - 1]
    ELSE st

\* lines 305-348: one neighbour of minV
DONeighbor(st, minV, neighbor) ==
    IF st.position[neighbor] > st.position[minV]
    THEN LET s1 == [st EXCEPT !.verts[minV] = Append(@, neighbor)]
             rdm == s1.rightDegree[minV]
             rdn == s1.rightDegree[neighbor]
         IN IF rdn = rdm
            THEN LET s2 == IF neighbor # s1.ordering[s1.buckets[rdm]]
                           THEN DOSwap(s1, neighbor, s1.buckets[rdm])
                           ELSE s1
                     b1 == [s2.buckets EXCEPT ![rdm - 1] = s2.position[minV] + 1]
                     b2 == [b1 EXCEPT ![rdn] = @ + 1]
                 IN [s2 EXCEPT !.buckets = b2, !.rightDegree[neighbor] = @ - 1]
            ELSE LET pu == s1.buckets[rdn]
                     s2 == IF neighbor # s1.ordering[pu]
                           THEN DOSwap(s1, neighbor, pu)
                           ELSE s1
                 IN [s2 EXCEPT !.buckets[rdn] = @ + 1,
                               !.rightDegree[neighbor] = @ - 1]
    ELSE st

\* lines 303-349: the loop over EdgeTo[EdgesBegin[minV] ..]
RECURSIVE DONeighbors(_, _, _, _)
DONeighbors(g, st, minV, j) ==
    IF j > g.degree[minV] THEN st
    ELSE DONeighbors(g, DONeighbor(st, minV, g.EdgeTo[minV][j]), minV, j + 1)

\* faulty variant of DOLowerBound: every such event sets the bound again
DOLowerBoundLast(cliqueLB, rd, left) ==
    IF rd = left THEN rd + 1 ELSE cliqueLB

\* lines 294-297: the first vertex whose residual degree rd equals the
\* number left of vertices after it sets cliqueLB
DOLowerBound(cliqueLB, rd, left) ==
    IF cliqueLB = 0 /\ rd = left THEN rd + 1 ELSE cliqueLB

\* lines 257-350: the removal loop
RECURSIVE DORemove(_, _, _)
DORemove(g, st, i) ==
    IF i >= g.n THEN st
    ELSE LET minV == st.ordering[i]
             rd == st.rightDegree[minV]
             s1 == [st EXCEPT !.verts[minV] = <<minV>>,
                              !.buckets[rd] = @ + 1]
             s2 == IF rd > s1.d
                   THEN [s1 EXCEPT !.d = rd,
                                   !.dRegular =
                                       IF s1.rightDegree[s1.ordering[g.n - 1]] = rd
                                       THEN i ELSE @]
                   ELSE s1
             s3 == [s2 EXCEPT !.cliqueLB = DOLowerBound(@, rd, g.n - i - 1)]
         IN DORemove(g, DONeighbors(g, s3, minV, 1), i + 1)

\* lines 213-350
DOOrder(g) ==
    LET st0 == [rightDegree |-> g.degree,
                ordering    |-> [i \in 0..(g.n - 1) |-> 0],
                position    |-> [i \in 0..(g.n - 1) |-> 0],
                buckets     |-> DOPrefix(g, DOCount(g), 0, 0),
                d           |-> 0,
                cliqueLB    |-> 0,
                dRegular    |-> -1,
                verts       |-> [v \in 0..(g.n - 1) |-> <<>>]]
        st1 == DOPlace(g, st0, 0)
    IN DORemove(g, [st1 EXCEPT !.buckets = DOShift(g, st1.buckets)], 0)

\* lines 369-382: breadth-first search from the vertices queued in S.
\* bfs = [S, head, discovered, count]; tail = Len(S); S is written at index
\* tail, which lies outside the n allocated entries once tail >= n.
RECURSIVE DOScanNbrs(_, _, _, _, _)
DOScanNbrs(g, o, bfs, v, j) ==
    IF j > g.degree[v] THEN bfs
    ELSE LET w == g.EdgeTo[v][j]
         IN IF o.position[w] > o.dRegular /\ ~bfs.discovered[w]
            THEN DOScanNbrs(g, o, [bfs EXCEPT !.discovered[w] = TRUE,
                                              !.S = Append(@, w),
                                              !.count = @ + 1], v, j + 1)
            ELSE DOScanNbrs(g, o, bfs, v, j + 1)

RECURSIVE DOBfs(_, _, _)
DOBfs(g, o, bfs) ==
    IF bfs.head >= Len(bfs.S) THEN bfs
    ELSE LET v == bfs.S[bfs.head + 1]
         IN DOBfs(g, o, DOScanNbrs(g, o, [bfs EXCEPT !.head = @ + 1], v, 1))

\* lines 362-389: one search per position i >= dRegular, stopping at the
\* first search that counts d+1 vertices.  History variable counts: the
\* root of every search and the count it is left with.
RECURSIVE DOComponents(_, _, _, _)
DOComponents(g, o, bfs, i) ==
    IF i >= g.n THEN [bfs EXCEPT !.clique = FALSE]
    ELSE LET v == o.ordering[i]
             b1 == DOBfs(g, o, [bfs EXCEPT !.S = Append(@, v),
                                          !.discovered[v] = TRUE,
                                          !.count = 1])
             b2 == [b1 EXCEPT !.counts = Append(bfs.counts,
                                                 [root |-> v, count |-> b1.count])]
         IN IF b1.count = o.d + 1
            THEN [b2 EXCEPT !.clique = TRUE]
            ELSE DOComponents(g, o, b2, i + 1)

\* no search was made
NoSearch == [ran |-> FALSE, dRegular |-> 0, S |-> <<>>, counts |-> <<>>]

\* faulty variant of DOTightens: a core that starts at index 0 counts too
DOTightensFromStart(dRegular, lb, ub) == dRegular >= 0 /\ lb < ub

\* line 354: (dRegular > 0) && (cliqueLB < cliqueUB)
DOTightens(dRegular, lb, ub) == dRegular > 0 /\ lb < ub

\* lines 352-395: cliqueUB, the number of entries written to S, and the
\* history of the search
DOTighten(g, o) ==
    IF DOTightens(o.dRegular, o.cliqueLB, o.d + 1)
    THEN LET b == DOComponents(g, o,
                     [S |-> <<>>, head |-> 0, count |-> 0, clique |-> FALSE,
                      counts |-> <<>>,
                      discovered |-> [v \in 0..(g.n - 1) |-> FALSE]],
                     o.dRegular)
         IN [cliqueUB |-> IF b.clique THEN o.d + 1 ELSE o.d, tail |-> Len(b.S),
             search |-> [ran |-> TRUE, dRegular |-> o.dRegular, S |-> b.S,
                         counts |-> b.counts]]
    ELSE [cliqueUB |-> o.d + 1, tail |-> 0, search |-> NoSearch]

\* Graph::degeneracyOrdering(subgraphs): the graph with its derived members,
\* the vertex lists of the subgraphs, and whether S was written out of bounds
degeneracyOrdering(g) ==
    LET o == DOOrder(g)
        t == DOTighten(g, o)
    IN [graph |-> [n |-> g.n, m |-> g.m, degree |-> g.degree, Delta |-> g.Delta,
                   EdgeTo |-> g.EdgeTo,
                   rightDegree |-> o.rightDegree, ordering |-> o.ordering,
                   position |-> o.position, d |-> o.d,
                   cliqueLB |-> o.cliqueLB, cliqueUB |-> t.cliqueUB,
                   search |-> t.search],
        verts |-> o.verts,
        overflow |-> t.tail > g.n]

\* --------------------------------------------------------- struct subgraph
\* vertices[p] = [v, degree, pos]; adjLists[p] is a list of positions.
\* largestDegreeVertex = -1 stands for a member that was never assigned.
NoVertex == -1

\* lines 270-277, 313-316: the slot of minV as degeneracyOrdering leaves it
InitialSubgraph(vs) ==
    [n        |-> Len(vs),
     m        |-> 0,
     created  |-> FALSE,
     vertices |-> [p \in 0..(Len(vs) - 1) |-> [v |-> vs[p + 1], degree |-> 0, pos |-> p]],
     adjLists |-> [p \in {} |-> <<>>],
     largestDegreeVertex |-> NoVertex]

\* ------------------------------- Graph::generateCompGraphRightNeighbors
\* faulty variant of GCAddEdge: only incMat[p][q] is set
GCAddEdgeOneWay(gc, p, q) ==
    [gc EXCEPT !.inc = @ \cup {<<p, q>>},
               !.degree[p] = @ + 1,
               !.degree[q] = @ + 1,
               !.m = @ + 1]

\* gc = [inc, degree, m]: inc holds the pairs set in incMat, degree the
\* degree members of subgraphs[v].vertices.
\* lines 586-590 / 600-604
GCAddEdge(gc, p, q) ==
    [gc EXCEPT !.inc = @ \cup {<<p, q>>, <<q, p>>},
               !.degree[p] = @ + 1,
               !.degree[q] = @ + 1,
               !.m = @ + 1]

\* lines 564-608: the merge walk of the right neighbours of v (L1, from
\* index c1) against those of the vertex iv at position ipos (L2, from c2)
RECURSIVE GCMerge(_, _, _, _, _, _, _)
GCMerge(position, L1, L2, ipos, c1, c2, gc) ==
    IF c1 > Len(L1) THEN gc
    ELSE LET iv == L1[ipos + 1]
             add == IF position[iv] < position[L1[c1]]
                    THEN GCAddEdge(gc, ipos, c1 - 1)
                    ELSE gc
         IN IF c2 > Len(L2)
            THEN GCMerge(position, L1, L2, ipos, c1 + 1, c2, add)
            ELSE IF L2[c2] < L1[c1]
            THEN GCMerge(position, L1, L2, ipos, c1, c2 + 1, gc)
            ELSE IF L1[c1] = L2[c2]
            THEN GCMerge(position, L1, L2, ipos, c1 + 1, c2 + 1, gc)
            ELSE IF L1[c1] = iv
            THEN GCMerge(position, L1, L2, ipos, c1 + 1, c2, gc)
            ELSE GCMerge(position, L1, L2, ipos, c1 + 1, c2, add)

\* lines 560-613: the loop over the vertices at positions 1..n-1
RECURSIVE GCPairs(_, _, _, _, _)
GCPairs(position, subs, v, ipos, gc) ==
    LET L1 == [q \in 1..subs[v].n |-> subs[v].vertices[q - 1].v]
    IN IF ipos >= subs[v].n THEN gc
       ELSE LET iv == L1[ipos + 1]
                L2 == [q \in 1..subs[iv].n |-> subs[iv].vertices[q - 1].v]
                g1 == GCMerge(position, L1, L2, ipos, 2, 2, gc)
                g2 == IF g1.degree[ipos] > 0
                      THEN [g1 EXCEPT !.largest = ipos]
                      ELSE g1
            IN GCPairs(position, subs, v, ipos + 1, g2)

\* lines 546-547: created is set and the lists are allocated, empty, before
\* anything is built
GCMarked(sg) ==
    [sg EXCEPT !.created = TRUE,
               !.adjLists = [p \in 0..(sg.n - 1) |-> <<>>]]

\* lines 546-623: the slot subgraphs[v] after the call
generateCompGraphRightNeighbors(graph, subs, v) ==
    LET sg == subs[v]
        gc == GCPairs(graph.position, subs, v, 1,
                      [inc |-> {}, m |-> sg.m, largest |-> sg.largestDegreeVertex,
                       degree |-> [p \in 0..(sg.n - 1) |-> sg.vertices[p].degree]])
    IN [n        |-> sg.n,
        m        |-> gc.m,
        created  |-> TRUE,
        vertices |-> [p \in 0..(sg.n - 1) |->
                        [sg.vertices[p] EXCEPT !.degree = gc.degree[p]]],
        adjLists |-> [p \in 0..(sg.n - 1) |->
                        IF p = 0 THEN <<>>
                        ELSE SortedSeq({j \in 1..(sg.n - 1) : <<p, j>> \in gc.inc})],
        largestDegreeVertex |-> gc.largest]

\* a default-constructed subgraph (n and m are not read before being set)
EmptySubgraph ==
    [n |-> 0, m |-> 0, created |-> FALSE,
     vertices |-> [p \in {} |-> [v |-> 0, degree |-> 0, pos |-> 0]],
     adjLists |-> [p \in {} |-> <<>>],
     largestDegreeVertex |-> NoVertex]

\* the entries of list that satisfy keep, in order, renamed by mask
RECURSIVE FilterMap(_, _, _, _)
FilterMap(list, removed, mask, j) ==
    IF j > Len(list) THEN <<>>
    ELSE IF removed[list[j]] THEN FilterMap(list, removed, mask, j + 1)
         ELSE <<mask[list[j]]>> \o FilterMap(list, removed, mask, j + 1)

\* index of the first maximum of deg over 0..n-1 if it is positive
\* (the running "largestDegree < degree" test of the source)
FirstLargest(deg, n, default) ==
    IF \E p \in 0..(n - 1) : deg[p] > 0
    THEN CHOOSE p \in 0..(n - 1) :
            /\ \A q \in 0..(n - 1) : deg[q] <= deg[p]
            /\ \A q \in 0..(p - 1) : deg[q] < deg[p]
    ELSE default

\* ------------------------------------------- VertexCover::subgraphUpdate
\* faulty variant of EdgeCount: the sum of the degrees is not halved
EdgeCountDoubled(degreeSum) == degreeSum

\* VertexCover.cpp lines 370 and 378: sG.m = (sum of the degrees) / 2
EdgeCount(degreeSum) == degreeSum \div 2

\* VertexCover.cpp lines 320-380
subgraphUpdate(n, numRemoved, vertices, adjLists, removed) ==
    LET size == n - numRemoved
        kept == SortedSeq({i \in 0..(n - 1) : ~removed[vertices[i].pos]})
        mask == [q \in 0..(n - 1) |->
                    Cardinality({i \in 0..(n - 1) : ~removed[vertices[i].pos]
                                                    /\ vertices[i].pos < q})]
        adj  == [c \in 0..(size - 1) |-> FilterMap(adjLists[kept[c + 1]], removed, mask, 1)]
        deg  == [c \in 0..(size - 1) |-> Len(adj[c])]
        sum  == LET RECURSIVE Sum(_)
                    Sum(c) == IF c >= size THEN 0 ELSE deg[c] + Sum(c + 1)
                IN Sum(0)
    IN [n        |-> size,
        m        |-> EdgeCount(sum),
        created  |-> TRUE,
        vertices |-> [c \in 0..(size - 1) |->
                        [v |-> vertices[kept[c + 1]].v, degree |-> deg[c], pos |-> c]],
        adjLists |-> adj,
        largestDegreeVertex |-> FirstLargest(deg, size, NoVertex)]

\* ------------------------------------------------------- Buss::getKernel
\* Buss.cpp lines 53-60: one sweep over the vertices.  fresh is a history
\* variable: the number of entries of removed that this sweep turned from
\* false to true.
RECURSIVE BussSweep(_, _, _, _)
BussSweep(sG, k, st, i) ==
    IF i >= sG.n \/ st.highDegVertices > k THEN st
    ELSE IF sG.vertices[i].degree > k - st.highDegVertices
         THEN BussSweep(sG, k,
                        [st EXCEPT !.removed[sG.vertices[i].pos] = TRUE,
                                   !.highDegVertices = @ + 1,
                                   !.numRemoved = @ + 1,
                                   !.change = TRUE,
                                   !.fresh = IF st.removed[sG.vertices[i].pos]
                                             THEN @ ELSE @ + 1], i + 1)
         ELSE BussSweep(sG, k, st, i + 1)

\* Buss.cpp lines 50-61.  passes is a history variable: the value of fresh
\* at the end of each sweep, in the order of the sweeps.
RECURSIVE BussMark(_, _, _)
BussMark(sG, k, st) ==
    IF st.change /\ st.highDegVertices <= k
    THEN LET s == BussSweep(sG, k, [st EXCEPT !.change = FALSE, !.fresh = 0], 0)
         IN BussMark(sG, k, [s EXCEPT !.passes = Append(@, s.fresh)])
    ELSE st

\* Buss.cpp lines 83-103
RECURSIVE BussIsolated(_, _, _)
BussIsolated(sG, st, i) ==
    IF i >= sG.n THEN st
    ELSE LET p == sG.vertices[i].pos
         IN IF ~st.removed[p]
               /\ \A j \in 1..Len(sG.adjLists[p]) : st.removed[sG.adjLists[p][j]]
            THEN BussIsolated(sG, [st EXCEPT !.removed[p] = TRUE,
                                             !.numRemoved = @ + 1], i + 1)
            ELSE BussIsolated(sG, st, i + 1)

\* Buss.cpp lines 37-131: [success, kernel, highDegVertices], together with
\* removed as the marking loop leaves it (marked) and the history passes
BussGetKernel(sG, k, h0) ==
    LET st0 == [removed |-> [p \in 0..(sG.n - 1) |-> FALSE],
                highDegVertices |-> h0, numRemoved |-> 0, change |-> TRUE,
                fresh |-> 0, passes |-> <<>>]
        st1 == BussMark(sG, k, st0)
        h   == st1.highDegVertices
    IN IF h > k
       THEN [success |-> -1, kernel |-> EmptySubgraph, highDegVertices |-> h,
             marked |-> st1.removed, passes |-> st1.passes]
       ELSE IF h = 0
       THEN [success |-> 0, kernel |-> sG, highDegVertices |-> h,
             marked |-> st1.removed, passes |-> st1.passes]
       ELSE LET st2 == BussIsolated(sG, st1, 0)
                kernel == subgraphUpdate(sG.n, st2.numRemoved, sG.vertices,
                                         sG.adjLists, st2.removed)
            IN [success |-> IF kernel.n <= k - h THEN 1
                            ELSE IF kernel.m > k * (k - h) THEN -1
                            ELSE 0,
                kernel |-> kernel, highDegVertices |-> h,
                marked |-> st1.removed, passes |-> st1.passes]

\* --------------------------------------------------- NemhauserTrotter
IntMax == 2147483647   \* INT_MAX
Unmatched == -1        \* initial entry of matchL / matchR, of indices, vertexMap

\* NemhauserTrotter.cpp lines 212-225: the neighbours of u in BFS
RECURSIVE NTBfsScan(_, _, _, _)
NTBfsScan(sG, b, u, j) ==
    IF j > Len(sG.adjLists[u]) THEN b
    ELSE LET v == sG.adjLists[u][j]
         IN IF b.matchR[v] = Unmatched
            THEN NTBfsScan(sG, IF b.dMax = IntMax
                               THEN [b EXCEPT !.dMax = b.dist[u] + 1]
                               ELSE b, u, j + 1)
            ELSE IF b.dist[b.matchR[v]] = IntMax
                 THEN NTBfsScan(sG, [b EXCEPT !.dist[b.matchR[v]] = b.dist[u] + 1,
                                              !.queue = Append(@, b.matchR[v])],
                                u, j + 1)
                 ELSE NTBfsScan(sG, b, u, j + 1)

\* lines 207-227
RECURSIVE NTBfsLoop(_, _)
NTBfsLoop(sG, b) ==
    IF b.queue = <<>> THEN b
    ELSE LET u == Head(b.queue)
             b1 == [b EXCEPT !.queue = Tail(@)]
         IN NTBfsLoop(sG, IF b1.dist[u] < b1.dMax THEN NTBfsScan(sG, b1, u, 1) ELSE b1)

\* lines 189-229: hk = [matchL, matchR, dist, dMax, queue]; found = "dMax != INT_MAX"
BFS(sG, hk) ==
    LET free == {p \in 0..(sG.n - 1) : hk.matchL[sG.vertices[p].pos] = Unmatched}
    IN NTBfsLoop(sG, [hk EXCEPT !.dist = [p \in 0..(sG.n - 1) |->
                                            IF p \in free THEN 0 ELSE IntMax],
                                !.queue = SortedSeq(free),
                                !.dMax = IntMax])

\* lines 231-258: [ok, hk]
RECURSIVE DFS(_, _, _)
RECURSIVE NTDfsScan(_, _, _, _)
NTDfsScan(sG, hk, u, j) ==
    IF j > Len(sG.adjLists[u])
    THEN [ok |-> FALSE, hk |-> [hk EXCEPT !.dist[u] = IntMax]]
    ELSE LET v == sG.adjLists[u][j]
             k == hk.matchR[v]
             distK == IF k >= 0 THEN hk.dist[k] ELSE hk.dMax
         IN IF distK = hk.dist[u] + 1
            THEN LET r == DFS(sG, hk, k)
                 IN IF r.ok
                    THEN [ok |-> TRUE,
                          hk |-> [r.hk EXCEPT !.matchR[v] = u, !.matchL[u] = v]]
                    ELSE NTDfsScan(sG, r.hk, u, j + 1)
            ELSE NTDfsScan(sG, hk, u, j + 1)

DFS(sG, hk, u) ==
    IF u # -1 THEN NTDfsScan(sG, hk, u, 1) ELSE [ok |-> TRUE, hk |-> hk]

\* lines 179-185: one augmentation phase
RECURSIVE NTAugment(_, _, _)
NTAugment(sG, hk, i) ==
    IF i >= sG.n THEN hk
    ELSE LET p == sG.vertices[i].pos
         IN IF hk.matchL[p] = Unmatched
            THEN NTAugment(sG, DFS(sG, hk, p).hk, i + 1)
            ELSE NTAugment(sG, hk, i + 1)

\* faulty variant of NTFound: the search never reports a free R-copy
NTFoundNever(dMax) == FALSE

\* line 228: return dMax != INT_MAX
NTFound(dMax) == dMax # IntMax

\* lines 170-187
RECURSIVE NTPhases(_, _)
NTPhases(sG, hk) ==
    LET b == BFS(sG, hk)
    IN IF NTFound(b.dMax) THEN NTPhases(sG, NTAugment(sG, b, 0)) ELSE b

HopcroftKarp(sG) ==
    NTPhases(sG, [matchL |-> [p \in 0..(sG.n - 1) |-> Unmatched],
                  matchR |-> [p \in 0..(sG.n - 1) |-> Unmatched],
                  dist   |-> [p \in 0..(sG.n - 1) |-> 0],
                  dMax   |-> IntMax,
                  queue  |-> <<>>])

\* faulty variant of NTBothCopies: the other copy is never recognised
NTBothCopiesNever(vertexMap, w, c) == FALSE

\* lines 333-335 / 347-349: vertexMap[w] == numComponents, the other copy of
\* w is already in the component that is being popped
NTBothCopies(vertexMap, w, c) == vertexMap[w] = c

\* lines 321-358: pop the component of v off the stack S (top = last entry)
NTAssign(n, t, u) ==
    LET c == t.numComponents
        w == IF u < n THEN u ELSE u - n
    IN [t EXCEPT !.componentMap[u] = c,
                 !.components[c + 1] = Append(@, u),
                 !.toBeRemoved[c + 1] = IF NTBothCopies(t.vertexMap, w, c) THEN FALSE ELSE @,
                 !.vertexMap[w] = c,
                 !.onStack[u] = FALSE,
                 !.S = SubSeq(@, 1, Len(@) - 1)]

RECURSIVE NTPop(_, _, _)
NTPop(n, t, v) ==
    LET u == t.S[Len(t.S)]
    IN IF u # v THEN NTPop(n, NTAssign(n, t, u), v)
       ELSE [NTAssign(n, t, u) EXCEPT !.numComponents = @ + 1]

\* lines 278-360
RECURSIVE strongConnect(_, _, _, _)
NTVisit(sG, matchR, t, v, w) ==
    IF t.indices[w] = -1
    THEN LET t1 == strongConnect(sG, matchR, t, w)
         IN [t1 EXCEPT !.lowLink[v] = Min2(t1.lowLink[v], t1.lowLink[w])]
    ELSE IF t.onStack[w]
         THEN [t EXCEPT !.lowLink[v] = Min2(t.lowLink[v], t.lowLink[w])]
         ELSE t

RECURSIVE NTSuccessors(_, _, _, _, _)
NTSuccessors(sG, matchR, t, v, j) ==
    IF j > Len(sG.adjLists[v]) THEN t
    ELSE NTSuccessors(sG, matchR,
                      NTVisit(sG, matchR, t, v, sG.adjLists[v][j] + sG.n), v, j + 1)

strongConnect(sG, matchR, t, v) ==
    LET n  == sG.n
        t1 == [t EXCEPT !.indices[v] = t.index,
                        !.lowLink[v] = t.index,
                        !.index = @ + 1,
                        !.S = Append(@, v),
                        !.onStack[v] = TRUE]
        t2 == IF v < n
              THEN NTSuccessors(sG, matchR, t1, v, 1)
              ELSE IF matchR[v - n] >= 0
                   THEN NTVisit(sG, matchR, t1, v, matchR[v - n])
                   ELSE t1
    IN IF t2.lowLink[v] = t2.indices[v]
       THEN NTPop(n, [t2 EXCEPT !.components = Append(@, <<>>),
                                !.toBeRemoved = Append(@, TRUE)], v)
       ELSE t2

\* lines 260-276
RECURSIVE NTRoots(_, _, _, _)
NTRoots(sG, matchR, t, i) ==
    IF i >= sG.n THEN t
    ELSE NTRoots(sG, matchR,
                 IF t.indices[i] = -1 THEN strongConnect(sG, matchR, t, i) ELSE t,
                 i + 1)

Tarjan(sG, matchR) ==
    NTRoots(sG, matchR,
            [indices      |-> [x \in 0..(2 * sG.n - 1) |-> -1],
             lowLink      |-> [x \in 0..(2 * sG.n - 1) |-> 0],
             onStack      |-> [x \in 0..(2 * sG.n - 1) |-> FALSE],
             componentMap |-> [x \in 0..(2 * sG.n - 1) |-> 0],
             vertexMap    |-> [x \in 0..(sG.n - 1) |-> -1],
             S            |-> <<>>,
             components   |-> <<>>,
             toBeRemoved  |-> <<>>,
             numComponents |-> 0,
             index        |-> 0], 0)

\* NemhauserTrotter.cpp lines 51-57 / 60-66: arc from component src to tgt
\* cg = [adjListsComp, compOutDegree, connected], indexed by component 0..
NTArc(cg, src, tgt) ==
    IF src # tgt /\ cg.connected[tgt] # src
    THEN [cg EXCEPT !.adjListsComp[tgt] = Append(@, src),
                    !.compOutDegree[src] = @ + 1,
                    !.connected[tgt] = src]
    ELSE cg

RECURSIVE NTArcsOfLeft(_, _, _, _, _)
NTArcsOfLeft(sG, t, cg, v, j) ==
    IF j > Len(sG.adjLists[v]) THEN cg
    ELSE NTArcsOfLeft(sG, t,
                      NTArc(cg, t.componentMap[v],
                            t.componentMap[sG.adjLists[v][j] + sG.n]),
                      v, j + 1)

\* lines 48-68: the members of component c
RECURSIVE NTArcsOfComp(_, _, _, _, _, _)
NTArcsOfComp(sG, matchR, t, cg, c, j) ==
    IF j > Len(t.components[c + 1]) THEN cg
    ELSE LET v == t.components[c + 1][j]
             cg1 == IF v < sG.n
                    THEN NTArcsOfLeft(sG, t, cg, v, 1)
                    ELSE IF matchR[v - sG.n] >= 0
                         THEN NTArc(cg, t.componentMap[v],
                                    t.componentMap[matchR[v - sG.n]])
                         ELSE cg
         IN NTArcsOfComp(sG, matchR, t, cg1, c, j + 1)

\* lines 43-69
RECURSIVE NTCompGraph(_, _, _, _, _)
NTCompGraph(sG, matchR, t, cg, c) ==
    IF c >= t.numComponents THEN cg
    ELSE NTCompGraph(sG, matchR, t, NTArcsOfComp(sG, matchR, t, cg, c, 1), c + 1)

\* history variable log: one entry per entry of removed that is set, with
\* the member of the component through which the vertex is removed, the size
\* of the component and the change of the two counters
NTLogged(rm, r, v, comp) ==
    [r EXCEPT !.log = Append(r.log, [member     |-> v,
                                     size       |-> Len(comp),
                                     numInVC    |-> r.numInVC - rm.numInVC,
                                     numRemoved |-> r.numRemoved - rm.numRemoved])]

\* the entries f[0], ..., f[k-1] of an array as a list
RECURSIVE ListOf(_, _, _)
ListOf(f, k, list) ==
    IF Len(list) >= k THEN list ELSE ListOf(f, k, Append(list, f[Len(list)]))

\* compRemoved and compOutDegree as lists (entry c + 1 for component c)
NTSnapshot(r, numComponents) ==
    [compRemoved   |-> ListOf(r.compRemoved, numComponents, <<>>),
     compOutDegree |-> ListOf(r.compOutDegree, numComponents, <<>>)]

\* history variable steps: compRemoved and compOutDegree before the first
\* sweep and after each component that a sweep has dealt with
NTStepped(r, numComponents) ==
    [r EXCEPT !.steps = Append(r.steps, NTSnapshot(r, numComponents))]

\* faulty variant of NTInCover: a vertex removed through either copy counts
NTInCoverAny(v, n) == TRUE

\* line 109: if (*v >= n) numInVC++
NTInCover(v, n) == v >= n

\* lines 100-114: rm = [removed, compRemoved, compOutDegree, numRemoved,
\* numInVC, update] and the history variables log, steps
RECURSIVE NTRemoveMembers(_, _, _, _)
NTRemoveMembers(n, comp, rm, j) ==
    IF j > Len(comp) THEN rm
    ELSE LET v == comp[j]
         IN IF ~rm.removed[v % n]
            THEN NTRemoveMembers(n, comp,
                     NTLogged(rm,
                         [rm EXCEPT !.removed[v % n] = TRUE,
                                    !.numRemoved = rm.numRemoved + 1,
                                    !.numInVC = IF NTInCover(v, n)
                                                THEN rm.numInVC + 1
                                                ELSE rm.numInVC],
                         v, comp), j + 1)
            ELSE NTRemoveMembers(n, comp, rm, j + 1)

\* lines 116-118
RECURSIVE NTRelease(_, _, _)
NTRelease(preds, rm, j) ==
    IF j > Len(preds) THEN rm
    ELSE NTRelease(preds,
                   [rm EXCEPT !.compOutDegree[preds[j]] = rm.compOutDegree[preds[j]] - 1],
                   j + 1)

\* lines 83-121: one sweep over the components
RECURSIVE NTSweep(_, _, _, _, _)
NTSweep(n, t, cg, rm, p) ==
    IF p >= t.numComponents THEN rm
    ELSE IF ~rm.compRemoved[p] /\ rm.compOutDegree[p] = 0 /\ t.toBeRemoved[p + 1]
         THEN LET comp == t.components[p + 1]
                  r1 == [rm EXCEPT !.compRemoved[p] = TRUE]
              IN IF Len(comp) = 1 /\ ~r1.removed[comp[1] % n]
                 THEN NTSweep(n, t, cg,
                              NTStepped(NTLogged(r1,
                                  [r1 EXCEPT !.removed[comp[1] % n] = TRUE,
                                             !.numRemoved = r1.numRemoved + 1],
                                  comp[1], comp), t.numComponents), p + 1)
                 ELSE NTSweep(n, t, cg,
                              NTStepped(
                                  [NTRelease(cg.adjListsComp[p],
                                             NTRemoveMembers(n, comp, r1, 1), 1)
                                      EXCEPT !.update = TRUE], t.numComponents), p + 1)
         ELSE NTSweep(n, t, cg, rm, p + 1)

\* lines 80-122
RECURSIVE NTRemoveLoop(_, _, _, _)
NTRemoveLoop(n, t, cg, rm) ==
    IF rm.update
    THEN NTRemoveLoop(n, t, cg, NTSweep(n, t, cg, [rm EXCEPT !.update = FALSE], 0))
    ELSE rm

\* lines 124-167: the outcome, from the removal loop's final rm
\* [success, kernel, numRemoved, numInVC], together with removed as the
\* removal loop leaves it (entry v + 1 for vertex v) and the history
\* variables log and steps
NTOutcome(sG, k, rm) ==
    LET n == sG.n
        out(s, ker) == [success |-> s, kernel |-> ker,
                        numRemoved |-> rm.numRemoved, numInVC |-> rm.numInVC,
                        removed |-> ListOf(rm.removed, n, <<>>),
                        log |-> rm.log, steps |-> rm.steps]
    IN IF rm.numInVC > k THEN out(-1, EmptySubgraph)
       ELSE IF rm.numRemoved = 0 THEN out(0, sG)
       ELSE IF n - rm.numRemoved <= k - rm.numInVC THEN out(1, EmptySubgraph)
       ELSE LET kernel == subgraphUpdate(n, rm.numRemoved, sG.vertices,
                                         sG.adjLists, rm.removed)
            IN out(IF kernel.m > k * (k - rm.numInVC) THEN -1 ELSE 0, kernel)

\* lines 71-122: removal of the sink components of the component graph cg
NTReduce(sG, k, t, cg) ==
    NTOutcome(sG, k,
              NTRemoveLoop(sG.n, t, cg,
                  NTStepped([removed       |-> [p \in 0..(sG.n - 1) |-> FALSE],
                             compRemoved   |-> [c \in 0..(t.numComponents - 1) |-> FALSE],
                             compOutDegree |-> cg.compOutDegree,
                             numRemoved    |-> 0,
                             numInVC       |-> 0,
                             update        |-> TRUE,
                             log           |-> <<>>,
                             steps         |-> <<>>], t.numComponents)))
      @@ [components   |-> t.components,
          toBeRemoved  |-> t.toBeRemoved,
          componentMap |-> ListOf(t.componentMap, 2 * sG.n, <<>>)]

\* lines 37-69: the component graph of the components t found by Tarjan
NTComponents(sG, k, matchR, t) ==
    NTReduce(sG, k, t,
             NTCompGraph(sG, matchR, t,
                         [adjListsComp  |-> [c \in 0..(t.numComponents - 1) |-> <<>>],
                          compOutDegree |-> [c \in 0..(t.numComponents - 1) |-> 0],
                          connected     |-> [c \in 0..(t.numComponents - 1) |-> -1]], 0))
      @@ [matchR |-> ListOf(matchR, sG.n, <<>>)]

\* lines 33-35: Tarjan on the matching's residual graph
NTMatched(sG, k, matchR) == NTComponents(sG, k, matchR, Tarjan(sG, matchR))

\* NemhauserTrotter::getKernel, lines 28-168:
\* [success, kernel, numRemoved, numInVC] and the members matchL, matchR,
\* components, componentMap, toBeRemoved as lists (entry i + 1 for index i)
NTWithMatching(sG, k, hk) ==
    NTMatched(sG, k, hk.matchR) @@ [matchL |-> ListOf(hk.matchL, sG.n, <<>>)]

NTGetKernel(sG, k) == NTWithMatching(sG, k, HopcroftKarp(sG))

\* ------------------------------------------------------------ VertexCover
\* std::lower_bound on list (entries 1..Len): number of entries skipped
RECURSIVE LowerBound(_, _, _, _)
LowerBound(list, x, first, len) ==
    IF len <= 0 THEN first
    ELSE LET half == len \div 2
             mid  == first + half
         IN IF list[mid + 1] < x
            THEN LowerBound(list, x, mid + 1, len - half - 1)
            ELSE LowerBound(list, x, first, half)

\* std::binary_search
BinarySearch(list, x) ==
    LET i == LowerBound(list, x, 0, Len(list))
    IN i < Len(list) /\ ~(x < list[i + 1])

\* faulty variant of InsertSorted: the entry is put at the end
InsertSortedBack(list, x) == Append(list, x)

\* adjLists[w].insert(lower_bound(..., x), x)
InsertSorted(list, x) ==
    LET i == LowerBound(list, x, 0, Len(list))
    IN SubSeq(list, 1, i) \o <<x>> \o SubSeq(list, i + 1, Len(list))

\* "for current in adjLists[w]: if (!removed[current]) degDecrease[current]++"
RECURSIVE DecreaseNeighbors(_, _, _)
DecreaseNeighbors(list, dp, j) ==
    IF j > Len(list) THEN dp
    ELSE DecreaseNeighbors(list,
            IF ~dp.removed[list[j]] THEN [dp EXCEPT !.degDecrease[list[j]] = @ + 1]
            ELSE dp, j + 1)

\* "while (removed[*neighbor]) neighbor++": index of the first entry from j
\* that is not removed (Len(list) + 1: the iterator ran past the end)
RECURSIVE FirstLive(_, _, _)
FirstLive(list, removed, j) ==
    IF j > Len(list) THEN j
    ELSE IF removed[list[j]] THEN FirstLive(list, removed, j + 1) ELSE j

\* faulty variant of FoldAttach: the new entry of i is not counted
FoldAttachUncounted(dp, ipos, w) ==
    [dp EXCEPT !.adjLists[w] = InsertSorted(@, ipos),
               !.adjLists[ipos] = Append(@, w)]

\* VertexCover.cpp lines 199-202 etc.: w becomes a neighbour of the folded i
FoldAttach(dp, ipos, w) ==
    [dp EXCEPT !.adjLists[w] = InsertSorted(@, ipos),
               !.adjLists[ipos] = Append(@, w),
               !.degDecrease[ipos] = @ - 1]

\* lines 187-244: merge of adjLists[a] (la) and adjLists[b] (lb) into i
RECURSIVE FoldMerge(_, _, _, _, _, _, _)
FoldMerge(vertices, dp, ipos, la, lb, c1, c2) ==
    LET skip(w) == dp.removed[w] \/ vertices[w].v = vertices[ipos].v
    IN IF c1 <= Len(la) /\ c2 <= Len(lb)
       THEN IF skip(la[c1]) THEN FoldMerge(vertices, dp, ipos, la, lb, c1 + 1, c2)
            ELSE IF skip(lb[c2]) THEN FoldMerge(vertices, dp, ipos, la, lb, c1, c2 + 1)
            ELSE IF la[c1] < lb[c2]
            THEN FoldMerge(vertices, FoldAttach(dp, ipos, la[c1]), ipos, la, lb, c1 + 1, c2)
            ELSE IF lb[c2] < la[c1]
            THEN FoldMerge(vertices, FoldAttach(dp, ipos, lb[c2]), ipos, la, lb, c1, c2 + 1)
            ELSE FoldMerge(vertices,
                           [FoldAttach(dp, ipos, la[c1])
                               EXCEPT !.degDecrease[la[c1]] = @ + 1],
                           ipos, la, lb, c1 + 1, c2 + 1)
       ELSE IF c1 <= Len(la)
       THEN FoldMerge(vertices,
                      IF ~skip(la[c1]) THEN FoldAttach(dp, ipos, la[c1]) ELSE dp,
                      ipos, la, lb, c1 + 1, c2)
       ELSE IF c2 <= Len(lb)
       THEN FoldMerge(vertices,
                      IF ~skip(lb[c2]) THEN FoldAttach(dp, ipos, lb[c2]) ELSE dp,
                      ipos, la, lb, c1, c2 + 1)
       ELSE dp

\* lines 63-247: vertex i of one sweep.
\* dp = [removed, degDecrease, adjLists, numRemoved, newK, change] and the
\* history variables rule (the rule applied to the last vertex looked at),
\* hist and passes
DPVertex(vertices, dp0, i) ==
    LET ipos == vertices[i].pos
        deg  == vertices[i].degree - dp0.degDecrease[ipos]
        list == dp0.adjLists[ipos]
        dp   == [dp0 EXCEPT !.rule =
                    IF dp0.removed[ipos] THEN "none"
                    ELSE IF deg > dp0.newK THEN "high"
                    ELSE IF deg <= 1 THEN "low"
                    ELSE IF deg = 2 THEN "two"
                    ELSE "none"]
    IN IF dp.removed[ipos] THEN dp
       ELSE IF deg > dp.newK
       THEN DecreaseNeighbors(list,
                [dp EXCEPT !.removed[ipos] = TRUE, !.numRemoved = @ + 1,
                           !.newK = @ - 1, !.change = TRUE], 1)
       ELSE IF deg <= 1
       THEN LET d1 == [dp EXCEPT !.removed[ipos] = TRUE, !.numRemoved = @ + 1]
            IN IF deg = 1
               THEN LET nb == list[FirstLive(list, d1.removed, 1)]
                    IN DecreaseNeighbors(d1.adjLists[nb],
                           [d1 EXCEPT !.newK = @ - 1, !.change = TRUE,
                                      !.removed[nb] = TRUE, !.numRemoved = @ + 1], 1)
               ELSE d1
       ELSE IF deg = 2
       THEN LET j1 == FirstLive(list, dp.removed, 1)
                j2 == FirstLive(list, dp.removed, j1 + 1)
                a  == list[j1]
                b  == list[j2]
                adjacent ==
                    IF vertices[a].degree - dp.degDecrease[a]
                          <= vertices[b].degree - dp.degDecrease[b]
                    THEN BinarySearch(dp.adjLists[a], b)
                    ELSE BinarySearch(dp.adjLists[b], a)
                d1 == [dp EXCEPT !.removed[a] = TRUE, !.removed[b] = TRUE,
                                 !.change = TRUE]
            IN IF adjacent
               THEN DecreaseNeighbors(d1.adjLists[b],
                        DecreaseNeighbors(d1.adjLists[a],
                            [d1 EXCEPT !.removed[ipos] = TRUE,
                                       !.newK = @ - 2,
                                       !.numRemoved = @ + 3,
                                       !.rule = "triangle"], 1), 1)
               ELSE FoldMerge(vertices,
                              [d1 EXCEPT !.newK = @ - 1,
                                         !.numRemoved = @ + 2,
                                         !.rule = "fold",
                                         !.degDecrease[ipos] = @ + 2,
                                         !.adjLists[ipos] = <<>>],
                              ipos, d1.adjLists[a], d1.adjLists[b], 1, 1)
       ELSE dp

\* removed, degDecrease and adjLists as lists (entry p + 1 for position p),
\* with newK and numRemoved
DPSnapshot(n, dp) ==
    [removed     |-> ListOf(dp.removed, n, <<>>),
     degDecrease |-> ListOf(dp.degDecrease, n, <<>>),
     adjLists    |-> ListOf(dp.adjLists, n, <<>>),
     newK        |-> dp.newK,
     numRemoved  |-> dp.numRemoved]

\* history variable hist: for every vertex a sweep applies a rule to, the
\* vertex, the rule and the state before and after
DPLogged(n, dp, d, i) ==
    IF d.rule = "none" THEN d
    ELSE [d EXCEPT !.hist = Append(d.hist, [vertex |-> i, rule |-> d.rule,
                                            pre  |-> DPSnapshot(n, dp),
                                            post |-> DPSnapshot(n, d)])]

\* lines 63-247: one sweep
RECURSIVE DPSweep(_, _, _, _)
DPSweep(n, vertices, dp, i) ==
    IF i >= n \/ dp.newK < 0 THEN dp
    ELSE DPSweep(n, vertices, DPLogged(n, dp, DPVertex(vertices, dp, i), i), i + 1)

\* lines 57-248; history variable passes: the number of sweeps
RECURSIVE DPLoop(_, _, _)
DPLoop(n, vertices, dp) ==
    IF dp.change /\ n - dp.numRemoved > dp.newK /\ dp.newK >= 0
    THEN DPLoop(n, vertices,
                DPSweep(n, vertices, [dp EXCEPT !.change = FALSE,
                                                !.passes = dp.passes + 1], 0))
    ELSE dp

\* lines 270, 284-289: the list of a kept vertex: vector<int>(size) whose
\* first entries are overwritten by the renamed live neighbours
KernelList(list, removed, mask, size) ==
    LET live == FilterMap(list, removed, mask, 1)
    IN [j \in 1..size |-> IF j <= Len(live) THEN live[j] ELSE 0]

\* faulty variant of DPCovered: one vertex more than newK is let through
DPCoveredLoose(n, numRemoved, newK) == n - numRemoved <= newK + 1

\* line 250: if (n - numRemoved <= newK) return 1
DPCovered(n, numRemoved, newK) == n - numRemoved <= newK

\* lines 250-317: the outcome, from the reduction loop's final dp
\* [success, newK, kernel, adjLists] (adjLists: the caller's lists
\* afterwards), with the loop's last state (final) and its history
DPOutcome(n, k, vertices, dp) ==
    LET out(s, ker) == [success |-> s, newK |-> dp.newK, kernel |-> ker,
                        adjLists |-> dp.adjLists,
                        final |-> DPSnapshot(n, dp),
                        hist |-> dp.hist, passes |-> dp.passes]
    IN IF DPCovered(n, dp.numRemoved, dp.newK) THEN out(1, EmptySubgraph)
       ELSE IF dp.newK <= 0 THEN out(-1, EmptySubgraph)
       ELSE LET kept == SortedSeq({i \in 0..(n - 1) : ~dp.removed[vertices[i].pos]})
                kn   == n - dp.numRemoved
                mask == [q \in 0..(n - 1) |->
                            Cardinality({i \in 0..(n - 1) :
                                ~dp.removed[vertices[i].pos] /\ vertices[i].pos < q})]
                live == [c \in 0..(kn - 1) |->
                            FilterMap(dp.adjLists[kept[c + 1]], dp.removed, mask, 1)]
                sum  == LET RECURSIVE Sum(_)
                            Sum(c) == IF c >= kn THEN 0 ELSE Len(live[c]) + Sum(c + 1)
                        IN Sum(0)
            IN out(IF sum \div 2 > k * dp.newK THEN -1 ELSE 0,
                   [n        |-> kn,
                    m        |-> sum \div 2,
                    created  |-> FALSE,
                    vertices |-> [c \in 0..(kn - 1) |->
                                    [v |-> vertices[kept[c + 1]].v,
                                     degree |-> Len(live[c]), pos |-> c]],
                    adjLists |-> [c \in 0..(kn - 1) |->
                                    KernelList(dp.adjLists[kept[c + 1]], dp.removed, mask,
                                               vertices[kept[c + 1]].degree
                                                 - dp.degDecrease[kept[c + 1]])],
                    largestDegreeVertex |->
                        FirstLargest([c \in 0..(kn - 1) |-> Len(live[c])], kn, NoVertex)])

\* VertexCover::degreePreprocessing, lines 37-318
degreePreprocessing(n, k, vertices, adjLists) ==
    DPOutcome(n, k, vertices,
              DPLoop(n, vertices,
                     [removed     |-> [p \in 0..(n - 1) |-> FALSE],
                      degDecrease |-> [p \in 0..(n - 1) |-> 0],
                      adjLists    |-> adjLists,
                      numRemoved  |-> 0,
                      newK        |-> k,
                      change      |-> TRUE,
                      rule        |-> "none",
                      hist        |-> <<>>,
                      passes      |-> 0]))

\* what a caller of degreePreprocessing is left with: the answer, newK, the
\* kernel when one was generated, its own lists, and the history
DPReturned(r, n) ==
    [success |-> r.success, newK |-> r.newK,
     kernel |-> IF r.kernel.n > 0
                THEN [r.kernel EXCEPT
                        !.vertices = ListOf(r.kernel.vertices, r.kernel.n, <<>>),
                        !.adjLists = ListOf(r.kernel.adjLists, r.kernel.n, <<>>)]
                ELSE r.kernel,
     adjLists |-> ListOf(r.adjLists, n, <<>>),
     final |-> r.final, hist |-> r.hist, passes |-> r.passes]

\* VertexCover.cpp line 420 / 427: an entry of the kernel's list with the
\* branching vertex a taken out
RECURSIVE KVCShift(_, _, _)
KVCShift(list, a, j) ==
    IF j > Len(list) THEN <<>>
    ELSE IF list[j] < a THEN <<list[j]>> \o KVCShift(list, a, j + 1)
    ELSE IF list[j] > a THEN <<list[j] - 1>> \o KVCShift(list, a, j + 1)
    ELSE KVCShift(list, a, j + 1)

\* VertexCover::kVertexCover, lines 382-489, together with the calls it makes:
\* a call is [found, calls], calls listing itself and every call below it
RECURSIVE KVCSearch(_, _, _, _, _)

\* the caller of the outermost call
NoCaller == [depth |-> -1, n |-> 0, k |-> 0]

\* lines 437 / 483: the recursive call on a branch's subgraph, made by the
\* call me = [depth, n, k]
KVCRecurse(n, k, sub, me) == KVCSearch(n, k, sub.vertices, sub.adjLists, me)

\* the two branches of one call: the answer of the second, the calls of both
KVCJoin(up, down) == [found |-> down.found, calls |-> up.calls \o down.calls]

\* lines 410-437: the branch with a = largestDegreeVertex in the cover
KVCUp(sG, vertices, a) ==
    LET keptUp == SortedSeq({i \in 0..(sG.n - 1) : i # a})
        adjListsUp == [c \in 0..(sG.n - 2) |->
                          KVCShift(sG.adjLists[vertices[keptUp[c + 1]].pos], a, 1)]
    IN [vertices |-> [c \in 0..(sG.n - 2) |->
                         [v |-> vertices[keptUp[c + 1]].v,
                          degree |-> Len(adjListsUp[c]), pos |-> c]],
        adjLists |-> adjListsUp]

\* lines 446-483: the branch with N(a) in the cover
KVCDown(sG, a) ==
    subgraphUpdate(sG.n, sG.n - (sG.n - 1 - sG.vertices[a].degree),
                   sG.vertices, sG.adjLists,
                   [p \in 0..(sG.n - 1) |-> p = a \/ p \in Range(sG.adjLists[a])])

\* faulty variant of KVCSecond: the branch with N(a) in the cover keeps newK
KVCSecondKeepK(up, r, sG, me) ==
    IF up.found THEN up
    ELSE KVCJoin(up, KVCRecurse(sG.n - 1 - sG.vertices[sG.largestDegreeVertex].degree,
                                r.newK,
                                KVCDown(sG, sG.largestDegreeVertex), me))

\* lines 483-488: the second branch is tried only when the first one failed
KVCSecond(up, r, sG, me) ==
    IF up.found THEN up
    ELSE KVCJoin(up, KVCRecurse(sG.n - 1 - sG.vertices[sG.largestDegreeVertex].degree,
                                r.newK - sG.vertices[sG.largestDegreeVertex].degree,
                                KVCDown(sG, sG.largestDegreeVertex), me))

\* faulty variant of KVCBranch: the branch with a in the cover keeps newK
KVCBranchKeepK(r, sG, vertices, me) ==
    IF r.success = -1 THEN [found |-> FALSE, calls |-> <<>>]
    ELSE IF r.success = 1 THEN [found |-> TRUE, calls |-> <<>>]
    ELSE KVCSecond(KVCRecurse(sG.n - 1, r.newK,
                              KVCUp(sG, vertices, sG.largestDegreeVertex), me),
                   r, sG, me)

\* lines 400-488: what follows degreePreprocessing's result r
KVCBranch(r, sG, vertices, me) ==
    IF r.success = -1 THEN [found |-> FALSE, calls |-> <<>>]
    ELSE IF r.success = 1 THEN [found |-> TRUE, calls |-> <<>>]
    ELSE KVCSecond(KVCRecurse(sG.n - 1, r.newK - 1,
                              KVCUp(sG, vertices, sG.largestDegreeVertex), me),
                   r, sG, me)

\* a call with what it was given, who made it, and the passes of its
\* reduction loop, ahead of the calls below it
KVCEntered(n, k, vertices, r, from, below) ==
    [found |-> below.found,
     calls |-> <<[depth |-> from.depth + 1, n |-> n, k |-> k, caller |-> from,
                  passes |-> r.passes, success |-> r.success,
                  degree |-> ListOf([p \in 0..(n - 1) |-> vertices[p].degree], n, <<>>),
                  hist |-> r.hist, final |-> r.final]>> \o below.calls]

KVCKernel(r, vertices, n, k, from) ==
    KVCEntered(n, k, vertices, r, from,
               KVCBranch(r, r.kernel, vertices,
                         [depth |-> from.depth + 1, n |-> n, k |-> k]))

KVCSearch(n, k, vertices, adjLists, from) ==
    KVCKernel(degreePreprocessing(n, k, vertices, adjLists), vertices, n, k, from)

kVertexCover(n, k, vertices, adjLists) ==
    KVCSearch(n, k, vertices, adjLists, NoCaller).found

\* -------------------------------------------------------- processSubgraphs
\* Clique.cpp lines 58-60: the slot of v, built on first use
Materialise(graph, subs, v) ==
    IF subs[v].created = FALSE
    THEN [subs EXCEPT ![v] = generateCompGraphRightNeighbors(graph, subs, v)]
    ELSE subs

\* Clique.cpp lines 96-108: the exact solver on the Nemhauser-Trotter kernel
PivotAfterNT(nt, k) ==
    IF nt.success = -1 THEN FALSE
    ELSE IF nt.success = 1 THEN TRUE
    ELSE kVertexCover(nt.kernel.n, k - nt.numInVC,
                      nt.kernel.vertices, nt.kernel.adjLists)

\* Clique.cpp lines 80-95: Nemhauser-Trotter on the Buss kernel
PivotAfterBuss(buss, k) ==
    IF buss.success = -1 THEN FALSE
    ELSE IF buss.success = 1 THEN TRUE
    ELSE PivotAfterNT(NTGetKernel(buss.kernel, k - buss.highDegVertices),
                      k - buss.highDegVertices)

\* Clique.cpp lines 65-110: the three stages for a pivot whose k >= 0;
\* TRUE iff the iteration sets cliqueFlag
PivotFindsClique(sg, k) == PivotAfterBuss(BussGetKernel(sg, k, 0), k)

\* ================================================================ state
VARIABLES
    graph,       \* the Graph object (Graph.h lines 61-83)
    subgraphs,   \* Clique::subgraphs
    numThreads,  \* Clique::numThreads
    cliqueLB,    \* Clique::cliqueLB
    cliqueUB,    \* Clique::cliqueUB
    cliqueFlag,  \* Clique::cliqueFlag
    sortedList,  \* Clique::sortedList
    clq,         \* the candidate size of findMaxClique
    pc,          \* where findMaxClique stands
    wpc,         \* per thread: where processSubgraphs stands
    wi,          \* per thread: the local i of processSubgraphs
    arg,         \* [sG, k]: operands of a kernel / solver call
    call,        \* which of Buss, NT, VC was called on arg ("none" before)
    ret,         \* what the call returned
    argc,        \* main: the number of command-line words
    argv,        \* main: [type, file, algorithm, threads]
    exitStatus   \* the status the process ended with ("none" while it runs)

vars == <<graph, subgraphs, numThreads, cliqueLB, cliqueUB, cliqueFlag,
          sortedList, clq, pc, wpc, wi, arg, call, ret, argc, argv, exitStatus>>

searchVars == <<graph, subgraphs, numThreads, cliqueLB, cliqueUB, cliqueFlag,
                sortedList, clq, pc, wpc, wi>>
searchData == <<graph, subgraphs, numThreads, cliqueLB, cliqueUB, cliqueFlag,
                sortedList, clq, wpc, wi>>
kernelVars == <<arg, call, ret>>
mainVars == <<argc, argv, exitStatus>>

\* --------------------------------------------------------------- inputs
SmallGraphs ==
    UNION {{[n |-> nn, E |-> E] : E \in (SUBSET Pairs(nn)) \ {{}}} : nn \in 2..MaxN}

Cycle5 == [n |-> 5, E |-> {{0,1},{1,2},{2,3},{3,4},{0,4}}]
Cycle4PlusIsolated == [n |-> 5, E |-> {{0,2},{0,3},{1,2},{1,3}}]
HousePlusChord == [n |-> 5, E |-> {{0,1},{0,2},{1,2},{1,3},{2,4},{3,4}}]
TwoTrianglesPlusIsolated ==
    [n |-> 7, E |-> {{0,1},{1,2},{0,2},{3,4},{4,5},{3,5}}]
Petersen ==
    [n |-> 10, E |-> {{0,1},{1,2},{2,3},{3,4},{0,4},{0,5},{1,6},{2,7},{3,8},{4,9},
                      {5,7},{7,9},{6,9},{6,8},{5,8}}]
Seven == [n |-> 7, E |-> {{0,1},{0,2},{0,3},{1,3},{1,6},{2,4},{2,5},{3,4},{3,5},
                          {4,6},{5,6}}]

CubicWithTriangle ==
    [n |-> 6, E |-> {{0,1},{0,2},{0,3},{1,4},{1,5},{2,3},{2,5},{3,4},{4,5}}]

\* K4,5 and a tenth vertex that closes a triangle on one of its edges
K45PlusApex ==
    [n |-> 10, E |-> {{a, b} : a \in 0..3, b \in 4..8} \cup {{0, 9}, {4, 9}}]

ScenarioGraphs ==
    {Cycle5, Cycle4PlusIsolated, HousePlusChord, TwoTrianglesPlusIsolated,
     CubicWithTriangle, Petersen, Seven, K45PlusApex}

InputGraphs == SmallGraphs \cup ScenarioGraphs

\* a simple graph as a subgraph record with consistent degrees
AsSubgraph(nn, E) ==
    LET g == [degree |-> [v \in 0..(nn - 1) |-> Cardinality(Nbrs(E, v))],
              EdgeTo |-> [v \in 0..(nn - 1) |-> SortedSeq(Nbrs(E, v))]]
        deg == g.degree
    IN [n        |-> nn,
        m        |-> Cardinality(E),
        created  |-> TRUE,
        vertices |-> [p \in 0..(nn - 1) |-> [v |-> p, degree |-> deg[p], pos |-> p]],
        adjLists |-> g.EdgeTo,
        largestDegreeVertex |-> FirstLargest(deg, nn, NoVertex)]

SmallSubgraphs ==
    UNION {{AsSubgraph(nn, E) : E \in SUBSET Pairs(nn)} : nn \in 0..MaxSubN}

TriangleWithTwoPendants == AsSubgraph(5, {{0,1},{0,2},{0,4},{1,2},{1,3}})
Prism == AsSubgraph(6, {{0,1},{1,2},{0,2},{3,4},{4,5},{3,5},{0,3},{1,4},{2,5}})
K33 == AsSubgraph(6, {{0,3},{0,4},{0,5},{1,3},{1,4},{1,5},{2,3},{2,4},{2,5}})
Cube == AsSubgraph(8, {{0,1},{1,2},{2,3},{0,3},{4,5},{5,6},{6,7},{4,7},
                       {0,4},{1,5},{2,6},{3,7}})

Cycle5PlusIsolated == AsSubgraph(6, {{0,1},{1,2},{2,3},{3,4},{0,4}})

K5 == AsSubgraph(5, {{0,1},{0,2},{0,3},{0,4},{1,2},{1,3},{1,4},{2,3},{2,4},{3,4}})

\* vertex 0 has the non-adjacent neighbours 1 and 2, whose other neighbours
\* are the triangle 3-4-5; K4 with a pendant vertex on vertex 0
FoldOntoTriangle ==
    AsSubgraph(6, {{0,1},{0,2},{1,3},{1,4},{2,4},{2,5},{3,4},{3,5},{4,5}})
K5WithPendant ==
    AsSubgraph(7, {{0,6},{1,6},{1,2},{1,3},{1,4},{1,5},{2,3},{2,4},{2,5},{3,4},{3,5},{4,5}})

ScenarioSubgraphs ==
    {TriangleWithTwoPendants, Prism, K33, Cube, Cycle5PlusIsolated, K5,
     FoldOntoTriangle, K5WithPendant}

InputSubgraphs == SmallSubgraphs \cup ScenarioSubgraphs

Threads == 0..(numThreads - 1)

\* what the file named on the command line holds: it cannot be opened, its
\* header has n * m = 0, or it describes a graph
NoFile == [status |-> "missing", n |-> 0, E |-> {}]
ZeroHeader == [status |-> "zero", n |-> 0, E |-> {}]
InputFiles ==
    {NoFile, ZeroHeader} \cup {[status |-> "graph", n |-> g.n, E |-> g.E] : g \in InputGraphs}

\* argv[1], argv[2] (by what the file holds), argv[3] and argv[4]
CommandLines ==
    [type : {"-e", "-a"}, file : InputFiles, algorithm : {"-d", "-m", "-x"},
     threads : 1..MaxThreads]

\* findMaxClique called on a graph, without main
NoCommandLine == [type |-> "-e", file |-> NoFile, algorithm |-> "-m", threads |-> 1]

\* ----------------------------------------------------------------- Init
\* Graph::Graph (Graph.cpp lines 169-206) and Clique::Clique
NewGraph(in) ==
    LET g == MakeGraph(in.n, in.E)
        zero == [i \in 0..(in.n - 1) |-> 0]
    IN [n |-> g.n, m |-> g.m, degree |-> g.degree, Delta |-> g.Delta,
        EdgeTo |-> g.EdgeTo,
        rightDegree |-> zero, ordering |-> zero, position |-> zero,
        d |-> 0, cliqueLB |-> 0, cliqueUB |-> 0, search |-> NoSearch]

NoCall == [sG |-> EmptySubgraph, k |-> 0]

SearchInit ==
    /\ \E in \in InputGraphs : graph = NewGraph(in)
    /\ numThreads \in 1..MaxThreads
    /\ subgraphs = <<>>
    /\ cliqueLB = 0
    /\ cliqueUB = 0
    /\ cliqueFlag = FALSE
    /\ sortedList = <<>>
    /\ clq = 0
    /\ pc = "start"
    /\ wpc = [t \in Threads |-> "idle"]
    /\ wi = [t \in Threads |-> 0]

Init ==
    /\ SearchInit
    /\ arg = NoCall
    /\ call = "none"
    /\ ret = 0
    /\ argc = 0
    /\ argv = NoCommandLine
    /\ exitStatus = "none"

\* ------------------------------------------------- Clique::findMaxClique
\* Clique.cpp lines 139-158: counting sort by descending right degree
RECURSIVE SortPlace(_, _, _, _)
SortPlace(g, buckets, list, i) ==
    IF i >= g.n THEN list
    ELSE SortPlace(g, [buckets EXCEPT ![g.rightDegree[i]] = @ + 1],
                   [list EXCEPT ![buckets[g.rightDegree[i]]] = i], i + 1)

\* faulty variant of SortByRightDegree: the buckets run upwards
SortByRightDegreeAscending(g) ==
    LET buckets == [k \in 0..g.d |->
                       Cardinality({v \in 0..(g.n - 1) : g.rightDegree[v] < k})]
    IN SortPlace(g, buckets, [i \in 0..(g.n - 1) |-> 0], 0)

SortByRightDegree(g) ==
    LET buckets == [k \in 0..g.d |->
                       Cardinality({v \in 0..(g.n - 1) : g.rightDegree[v] > k})]
    IN SortPlace(g, buckets, [i \in 0..(g.n - 1) |-> 0], 0)

\* faulty variant of NextCandidate: the midpoint rounded down
NextCandidateFloor(lb, ub) == (lb + ub) \div 2

\* Clique.cpp line 188
NextCandidate(lb, ub) == (lb + ub + 1) \div 2

\* faulty variant of FirstCandidate: the first round starts at the midpoint
FirstCandidateMidpoint(lb, ub) == (lb + ub + 1) \div 2

\* Clique.cpp line 160: int clq = cliqueUB
FirstCandidate(lb, ub) == ub

\* lines 125-160 when degeneracyOrdering returns
Begin(r) ==
    /\ graph' = r.graph
    /\ subgraphs' = [v \in 0..(graph.n - 1) |-> InitialSubgraph(r.verts[v])]
    /\ cliqueUB' = r.graph.cliqueUB
    /\ cliqueLB' = r.graph.cliqueLB
    /\ IF r.graph.cliqueLB < r.graph.cliqueUB
       THEN /\ sortedList' = SortByRightDegree(r.graph)
            /\ clq' = FirstCandidate(r.graph.cliqueLB, r.graph.cliqueUB)
            /\ pc' = "loop"
       ELSE /\ UNCHANGED <<sortedList, clq>>
            /\ pc' = "done"
    /\ UNCHANGED <<numThreads, cliqueFlag, wpc, wi, kernelVars, mainVars>>

FindMaxCliqueBegin ==
    /\ pc = "start"
    /\ Begin(degeneracyOrdering(graph))

\* Graph.cpp lines 357, 365, 378: S has n entries; a write to S[tail] with
\* tail >= n is out of bounds.  The build either absorbs the write in the
\* slack of the allocation (FindMaxCliqueBegin) or the corrupted heap makes
\* the process abort when the vectors are freed.
DegeneracyAbort ==
    /\ pc = "start"
    /\ degeneracyOrdering(graph).overflow
    /\ pc' = "aborted"
    /\ exitStatus' = "SIGABRT"
    /\ UNCHANGED <<graph, subgraphs, numThreads, cliqueLB, cliqueUB, cliqueFlag,
                   sortedList, clq, wpc, wi, kernelVars, argc, argv>>

\* faulty variant of FirstPivot: every thread starts at the first pivot
FirstPivotShared(t) == 0

\* processSubgraphs line 47: int i = threadNumber
FirstPivot(t) == t

\* lines 163-176: reset the flag and start the threads of a round
RoundBegin ==
    /\ pc = "loop"
    /\ cliqueLB < cliqueUB
    /\ cliqueFlag' = FALSE
    /\ wpc' = [t \in Threads |-> "top"]
    /\ wi' = [t \in Threads |-> FirstPivot(t)]
    /\ pc' = "join"
    /\ UNCHANGED <<graph, subgraphs, numThreads, cliqueLB, cliqueUB, sortedList,
                   clq, kernelVars, mainVars>>

\* faulty variant of LoopContinues: the flag is not looked at
LoopContinuesUnflagged(flag, i, n) == i < n

\* processSubgraphs line 49: while (!cliqueFlag && i < graph.n)
LoopContinues(flag, i, n) == ~flag /\ i < n

\* processSubgraphs line 49: the loop test of thread t
WorkerTest(t) ==
    /\ t \in Threads
    /\ pc = "join"
    /\ wpc[t] = "top"
    /\ wpc' = [wpc EXCEPT ![t] = IF LoopContinues(cliqueFlag, wi[t], graph.n)
                                 THEN "pivot" ELSE "exit"]
    /\ UNCHANGED <<graph, subgraphs, numThreads, cliqueLB, cliqueUB, cliqueFlag,
                   sortedList, clq, pc, wi, kernelVars, mainVars>>

\* faulty variant of Stride: one pivot more is stepped over
StrideSkipping == numThreads + 1

\* processSubgraphs lines 68, 91, 113: i += numberOfThreads
Stride == numThreads

\* processSubgraphs lines 50 and 52: the pivot of thread t and its parameter
PivotOf(t) == sortedList[wi[t]]
ParameterOf(t) == graph.rightDegree[PivotOf(t)] + 1 - clq

\* processSubgraphs lines 50-58 and 111-113: thread t takes its pivot v,
\* leaves the loop if k < 0 and otherwise reads subgraphs[v].created
WorkerCreated(t) ==
    /\ t \in Threads
    /\ pc = "join"
    /\ wpc[t] = "pivot"
    /\ wpc' = [wpc EXCEPT ![t] =
                  IF ParameterOf(t) < 0 THEN "exit"
                  ELSE IF subgraphs[PivotOf(t)].created = FALSE THEN "gen"
                  ELSE "body"]
    /\ UNCHANGED <<graph, subgraphs, numThreads, cliqueLB, cliqueUB, cliqueFlag,
                   sortedList, clq, pc, wi, kernelVars, mainVars>>

\* processSubgraphs line 59, Graph.cpp lines 546-547: thread t enters
\* generateCompGraphRightNeighbors for its pivot
WorkerGenerate(t) ==
    /\ t \in Threads
    /\ pc = "join"
    /\ wpc[t] = "gen"
    /\ subgraphs' = [subgraphs EXCEPT ![PivotOf(t)] = GCMarked(subgraphs[PivotOf(t)])]
    /\ wpc' = [wpc EXCEPT ![t] = "build"]
    /\ UNCHANGED <<graph, numThreads, cliqueLB, cliqueUB, cliqueFlag,
                   sortedList, clq, pc, wi, kernelVars, mainVars>>

\* Graph.cpp lines 549-623: thread t builds the slot of its pivot
WorkerBuild(t) ==
    /\ t \in Threads
    /\ pc = "join"
    /\ wpc[t] = "build"
    /\ subgraphs' = [subgraphs EXCEPT ![PivotOf(t)] =
                        generateCompGraphRightNeighbors(graph, subgraphs, PivotOf(t))]
    /\ wpc' = [wpc EXCEPT ![t] = "body"]
    /\ UNCHANGED <<graph, numThreads, cliqueLB, cliqueUB, cliqueFlag,
                   sortedList, clq, pc, wi, kernelVars, mainVars>>

\* faulty variant of FlagAfterPivot: the thread stores its own answer
FlagAfterPivotStored(found, flag) == found

\* processSubgraphs lines 76, 97, 108: cliqueFlag = true is the only
\* store a thread makes to the flag
FlagAfterPivot(found, flag) == IF found THEN TRUE ELSE flag

\* processSubgraphs lines 65-114: the kernels and the solver on the slot of
\* the pivot of thread t
WorkerPivot(t) ==
    /\ t \in Threads
    /\ pc = "join"
    /\ wpc[t] = "body"
    /\ IF PivotFindsClique(subgraphs[PivotOf(t)], ParameterOf(t))
       THEN /\ cliqueFlag' = FlagAfterPivot(TRUE, cliqueFlag)
            /\ wpc' = [wpc EXCEPT ![t] = "exit"]
            /\ wi' = wi
       ELSE /\ cliqueFlag' = FlagAfterPivot(FALSE, cliqueFlag)
            /\ wpc' = [wpc EXCEPT ![t] = "top"]
            /\ wi' = [wi EXCEPT ![t] = @ + Stride]
    /\ UNCHANGED <<graph, subgraphs, numThreads, cliqueLB, cliqueUB, sortedList,
                   clq, pc, kernelVars, mainVars>>

\* ---------------------------------------- accesses to the shared slots
\* the members of a slot (Graph.h lines 33-56), as pairs <<v, member>>
GeneratedMembers ==
    {"created", "adjLists", "vertices.degree", "m", "largestDegreeVertex"}
SlotMembers == GeneratedMembers \cup {"n", "vertices.v", "vertices.pos"}

\* the vertices at positions 1.. of subgraphs[v].vertices
ListedIn(v) == {subgraphs[v].vertices[p].v : p \in 1..(subgraphs[v].n - 1)}

\* Graph.cpp lines 546, 547, 588-590, 602-604, 611, 620: what thread t writes
\* where it stands
SlotWrites(t) ==
    IF wpc[t] = "gen" THEN {<<PivotOf(t), f>> : f \in {"created", "adjLists"}}
    ELSE IF wpc[t] = "build"
    THEN {<<PivotOf(t), f>> : f \in GeneratedMembers \ {"created"}}
    ELSE {}

\* what thread t reads where it stands: created (Clique.cpp line 58); in
\* generateCompGraphRightNeighbors its own slot and the vertex names of the
\* slots of the listed vertices (Graph.cpp lines 560-608); the whole slot in
\* Buss::getKernel (Buss.cpp lines 42-109)
SlotReads(t) ==
    IF wpc[t] = "pivot" /\ ParameterOf(t) >= 0 THEN {<<PivotOf(t), "created">>}
    ELSE IF wpc[t] = "gen" THEN {<<PivotOf(t), "n">>}
    ELSE IF wpc[t] = "build"
    THEN {<<PivotOf(t), f>> : f \in SlotMembers \ {"created", "largestDegreeVertex"}}
         \cup {<<u, "vertices.v">> : u \in ListedIn(PivotOf(t))}
    ELSE IF wpc[t] = "body" THEN {<<PivotOf(t), f>> : f \in SlotMembers}
    ELSE {}

\* lines 179-188: join the threads, move one bound, pick the next candidate
RoundEnd ==
    /\ pc = "join"
    /\ \A t \in Threads : wpc[t] = "exit"
    /\ LET lb == IF cliqueFlag THEN clq ELSE cliqueLB
           ub == IF cliqueFlag THEN cliqueUB ELSE clq - 1
       IN /\ cliqueLB' = lb
          /\ cliqueUB' = ub
          /\ clq' = NextCandidate(lb, ub)
          /\ pc' = IF lb < ub THEN "loop" ELSE "done"
    /\ wpc' = [t \in Threads |-> "idle"]
    /\ UNCHANGED <<graph, subgraphs, numThreads, cliqueFlag, sortedList, wi,
                   kernelVars, mainVars>>

Next ==
    \/ FindMaxCliqueBegin
    \/ DegeneracyAbort
    \/ RoundBegin
    \/ \E t \in 0..(MaxThreads - 1) : WorkerTest(t)
    \/ \E t \in 0..(MaxThreads - 1) : WorkerCreated(t)
    \/ \E t \in 0..(MaxThreads - 1) : WorkerGenerate(t)
    \/ \E t \in 0..(MaxThreads - 1) : WorkerBuild(t)
    \/ \E t \in 0..(MaxThreads - 1) : WorkerPivot(t)
    \/ RoundEnd

Spec == Init /\ [][Next]_vars

\* The main thread and the workers are OS threads that run until they return
\* and the main thread joins every worker (Clique.cpp lines 166-182): no
\* thread stops in the middle of its code.
\* FindMaxCliqueBegin is the only step from "start" to "loop" or "done", and
\* it is enabled in every state at "start"
BeginProgress == pc = "start" /\ pc' \in {"loop", "done"}

\* WorkerPivot(t) is the only step that takes thread t out of "body", and it
\* is enabled in every state where t is at "body"
PivotProgress(t) ==
    /\ t \in Threads
    /\ pc = "join"
    /\ wpc[t] = "body"
    /\ wpc' \in {[wpc EXCEPT ![t] = "top"], [wpc EXCEPT ![t] = "exit"]}

\* WorkerGenerate(t) is the only step that takes thread t out of "gen", and
\* it is enabled in every state where t is at "gen"
GenerateProgress(t) ==
    /\ t \in Threads
    /\ pc = "join"
    /\ wpc[t] = "gen"
    /\ wpc' = [wpc EXCEPT ![t] = "build"]

\* WorkerBuild(t) is the only step that takes thread t out of "build", and it
\* is enabled in every state where t is at "build"
BuildProgress(t) ==
    /\ t \in Threads
    /\ pc = "join"
    /\ wpc[t] = "build"
    /\ wpc' = [wpc EXCEPT ![t] = "body"]

FairSpec ==
    /\ Spec
    /\ WF_pc(BeginProgress)
    /\ WF_vars(RoundBegin)
    /\ WF_vars(RoundEnd)
    /\ \A t \in 0..(MaxThreads - 1) :
          /\ WF_vars(WorkerTest(t))
          /\ WF_vars(WorkerCreated(t))
          /\ WF_wpc(GenerateProgress(t))
          /\ WF_wpc(BuildProgress(t))
          /\ WF_wpc(PivotProgress(t))

\* ------------------------------------------------------------------ main
\* the process starts in main with a command line; the Graph object is not
\* constructed yet
MainInit ==
    /\ argc \in 1..5
    /\ argv \in CommandLines
    /\ exitStatus = "none"
    /\ pc = "main"
    /\ graph = NewGraph([n |-> 2, E |-> {{0, 1}}])
    /\ numThreads = 1
    /\ subgraphs = <<>>
    /\ cliqueLB = 0
    /\ cliqueUB = 0
    /\ cliqueFlag = FALSE
    /\ sortedList = <<>>
    /\ clq = 0
    /\ wpc = [t \in Threads |-> "idle"]
    /\ wi = [t \in Threads |-> 0]
    /\ arg = NoCall
    /\ call = "none"
    /\ ret = 0

\* main.cpp lines 28-29 and 77-78: too few arguments; main prints a message
\* and runs off its end, which returns 0
MainUsage ==
    /\ pc = "main"
    /\ argc < 4
    /\ pc' = "exit"
    /\ exitStatus' = "0"
    /\ UNCHANGED <<searchData, kernelVars, argc, argv>>

\* main.cpp lines 35-37, Graph.cpp lines 42-54: the constructor sets read to
\* false, main skips the run and runs off its end.  For a file that cannot
\* be opened n and m are never assigned (line 48 reads from a failed
\* stream): this is the outcome where n * m == 0, or where the branch of
\* line 55 runs through on the values found.
MainReadFails ==
    /\ pc = "main"
    /\ argc >= 4
    /\ argv.file.status \in {"missing", "zero"}
    /\ pc' = "exit"
    /\ exitStatus' = "0"
    /\ UNCHANGED <<searchData, kernelVars, argc, argv>>

\* Graph.cpp lines 48-74 for a file that cannot be opened: n is never
\* assigned; with a negative value the vectors of lines 71-74 throw
\* std::length_error, which nothing catches
MainReadAborts ==
    /\ pc = "main"
    /\ argc >= 4
    /\ argv.file.status = "missing"
    /\ pc' = "aborted"
    /\ exitStatus' = "SIGABRT"
    /\ UNCHANGED <<searchData, kernelVars, argc, argv>>

\* Graph::degeneracyOrdering() (Graph.cpp lines 398-507): the ordering loop
\* of lines 440-507 is the one of lines 257-350 without the subgraphs, the
\* lower bound and dRegular; cliqueLB and cliqueUB are not assigned
degeneracyOrderingOnly(g, o) ==
    [g EXCEPT !.rightDegree = o.rightDegree, !.ordering = o.ordering,
              !.position = o.position, !.d = o.d]

\* main.cpp lines 35-49: the graph is read and "-d" asks for the ordering
MainDegeneracy ==
    /\ pc = "main"
    /\ argc >= 4
    /\ argv.file.status = "graph"
    /\ argv.algorithm = "-d"
    /\ graph' = degeneracyOrderingOnly(NewGraph(argv.file), DOOrder(NewGraph(argv.file)))
    /\ pc' = "exit"
    /\ exitStatus' = "0"
    /\ UNCHANGED <<subgraphs, numThreads, cliqueLB, cliqueUB, cliqueFlag,
                   sortedList, clq, wpc, wi, kernelVars, argc, argv>>

\* main.cpp lines 35-62: the graph is read and "-m" asks for the maximum
\* clique; hw is std::thread::hardware_concurrency() (line 26), replaced by
\* argv[4] when that is given and not larger (lines 52-60)
MainClique ==
    /\ pc = "main"
    /\ argc >= 4
    /\ argv.file.status = "graph"
    /\ argv.algorithm = "-m"
    /\ graph' = NewGraph(argv.file)
    /\ \E hw \in 1..MaxThreads :
          numThreads' = IF argc = 5 /\ argv.threads <= hw THEN argv.threads ELSE hw
    /\ wpc' = [t \in 0..(numThreads' - 1) |-> "idle"]
    /\ wi' = [t \in 0..(numThreads' - 1) |-> 0]
    /\ pc' = "start"
    /\ UNCHANGED <<subgraphs, cliqueLB, cliqueUB, cliqueFlag, sortedList, clq,
                   kernelVars, mainVars>>

\* main.cpp lines 35-76: the graph is read and argv[3] is neither "-d" nor
\* "-m"; nothing is run
MainNoAlgorithm ==
    /\ pc = "main"
    /\ argc >= 4
    /\ argv.file.status = "graph"
    /\ argv.algorithm \notin {"-d", "-m"}
    /\ graph' = NewGraph(argv.file)
    /\ pc' = "exit"
    /\ exitStatus' = "0"
    /\ UNCHANGED <<subgraphs, numThreads, cliqueLB, cliqueUB, cliqueFlag,
                   sortedList, clq, wpc, wi, kernelVars, argc, argv>>

\* main.cpp lines 63-78: findMaxClique has returned; main prints the summary
\* line and runs off its end
MainReturn ==
    /\ pc = "done"
    /\ argc >= 4
    /\ pc' = "exit"
    /\ exitStatus' = "0"
    /\ UNCHANGED <<searchData, kernelVars, argc, argv>>

MainNext ==
    \/ MainUsage
    \/ MainReadFails
    \/ MainReadAborts
    \/ MainDegeneracy
    \/ MainClique
    \/ MainNoAlgorithm
    \/ MainReturn
    \/ Next

MainSpec == MainInit /\ [][MainNext]_vars

\* ------------------------------------------- kernels and solver, called
\* directly on an arbitrary simple graph and parameter
KernelInit ==
    /\ arg \in [sG : InputSubgraphs, k : (-1)..MaxK]
    /\ call = "none"
    /\ ret = 0
    /\ graph = NewGraph([n |-> 2, E |-> {{0, 1}}])
    /\ numThreads = 1
    /\ subgraphs = <<>>
    /\ cliqueLB = 0
    /\ cliqueUB = 0
    /\ cliqueFlag = FALSE
    /\ sortedList = <<>>
    /\ clq = 0
    /\ pc = "off"
    /\ wpc = [t \in Threads |-> "idle"]
    /\ wi = [t \in Threads |-> 0]
    /\ argc = 0
    /\ argv = NoCommandLine
    /\ exitStatus = "none"

\* Buss BusKernel(&sG, k); int highDegVertices = 0; getKernel(kernel, highDegVertices)
CallBuss ==
    /\ pc = "off"
    /\ call = "none"
    /\ call' = "Buss"
    /\ ret' = BussGetKernel(arg.sG, arg.k, 0)
    /\ UNCHANGED <<arg, searchVars, mainVars>>

\* NemhauserTrotter NT(&sG, k); getKernel(kernel, numRemoved = 0, numInVC = 0)
CallNT ==
    /\ pc = "off"
    /\ call = "none"
    /\ call' = "NT"
    /\ ret' = NTGetKernel(arg.sG, arg.k)
    /\ UNCHANGED <<arg, searchVars, mainVars>>

\* VertexCover VC; VC.kVertexCover(n, k, vertices, adjLists)
CallVC ==
    /\ pc = "off"
    /\ call = "none"
    /\ call' = "VC"
    /\ ret' = KVCSearch(arg.sG.n, arg.k, arg.sG.vertices, arg.sG.adjLists, NoCaller)
    /\ UNCHANGED <<arg, searchVars, mainVars>>

\* VertexCover VC; VC.degreePreprocessing(n, k, vertices, adjLists, newK, kernel)
\* with a kernel of n vertices and n lists as kVertexCover allocates it
CallDP ==
    /\ pc = "off"
    /\ call = "none"
    /\ call' = "DP"
    /\ ret' = DPReturned(degreePreprocessing(arg.sG.n, arg.k, arg.sG.vertices,
                                             arg.sG.adjLists), arg.sG.n)
    /\ UNCHANGED <<arg, searchVars, mainVars>>

KernelNext == CallBuss \/ CallNT \/ CallVC \/ CallDP

KernelSpec == KernelInit /\ [][KernelNext]_vars

\* the search together with the direct calls: every subgraph that is handed
\* from one component to the next
PipelineSpec == (Init \/ KernelInit) /\ [][Next \/ KernelNext]_vars

\* ============================================================ properties
\* adjacency in G
Adjacent(g, u, w) == \E j \in 1..g.degree[u] : g.EdgeTo[u][j] = w

IsClique(g, Q) == \A u \in Q : \A w \in Q : u # w => Adjacent(g, u, w)

\* clique number by enumeration of all vertex subsets
Omega(g) ==
    LET sizes == {Cardinality(Q) : Q \in {R \in SUBSET (0..(g.n - 1)) : IsClique(g, R)}}
    IN CHOOSE x \in sizes : \A y \in sizes : y <= x

\* vertex covers of a subgraph record by enumeration
IsCover(sG, C) ==
    \A p \in 0..(sG.n - 1) : \A j \in 1..Len(sG.adjLists[p]) :
        p \in C \/ sG.adjLists[p][j] \in C

HasVertexCover(sG, k) ==
    \E C \in SUBSET (0..(sG.n - 1)) : Cardinality(C) <= k /\ IsCover(sG, C)

\* degeneracyOrdering has returned
Returned == pc \in {"loop", "join", "done"}

\* thread t is inside generateCompGraphRightNeighbors
Building(t) == wpc[t] \in {"gen", "build"}

\* generateCompGraphRightNeighbors(v) was called and has returned
Materialised(v) ==
    /\ subgraphs[v].created
    /\ \A t \in Threads : wpc[t] = "build" => PivotOf(t) # v

\* ------------------------------------------------- sequential reference
\* one candidate tried on the pivots 0, 1, 2, ... of sortedList in turn
RECURSIVE SequentialScan(_, _)
SequentialScan(candidate, i) ==
    IF i >= graph.n THEN FALSE
    ELSE LET v == sortedList[i]
             k == graph.rightDegree[v] + 1 - candidate
         IN IF k < 0 THEN FALSE
            ELSE \/ PivotFindsClique(Materialise(graph, subgraphs, v)[v], k)
                 \/ SequentialScan(candidate, i + 1)

\* the search of findMaxClique with every round replaced by SequentialScan
RECURSIVE SequentialSearch(_, _, _)
SequentialSearch(lb, ub, candidate) ==
    IF lb >= ub THEN ub
    ELSE IF SequentialScan(candidate, 0)
         THEN SequentialSearch(candidate, ub, (candidate + ub + 1) \div 2)
         ELSE SequentialSearch(lb, candidate - 1, (lb + candidate) \div 2)

\* the vertices at positions i..n-1 of ordering, and v's neighbours among them
Suffix(i) == {graph.ordering[j] : j \in i..(graph.n - 1)}
ResidualDegree(i, v) == Cardinality({w \in Suffix(i) : Adjacent(graph, v, w)})

\* the right neighbours of v
RightNeighbors(v) ==
    {w \in 0..(graph.n - 1) :
        Adjacent(graph, v, w) /\ graph.position[w] > graph.position[v]}

\* a round of the search has ended: all its workers have left their loop
RoundOver == pc = "join" /\ \A t \in Threads : wpc[t] = "exit"

\* ================================================================ claims
\* C1: findMaxClique finishes with cliqueUB = cliqueLB = omega(G), the clique
\* number found by enumerating all vertex subsets, for every input graph
\* with an edge and every number of workers.
C1_ExactCliqueNumber ==
    pc = "done" => cliqueUB = Omega(graph) /\ cliqueLB = cliqueUB

\* C2: once degeneracyOrdering has returned, and after every round,
\* cliqueLB <= omega(G) <= cliqueUB; cliqueLB never decreases and cliqueUB
\* never increases from one round to the next.
C2_BoundsBracketOmega ==
    /\ [](Returned => cliqueLB <= Omega(graph) /\ Omega(graph) <= cliqueUB)
    /\ [][Returned => cliqueLB' >= cliqueLB /\ cliqueUB' <= cliqueUB]_vars

\* C3: the search terminates: the workers of a round all leave their loop,
\* a round strictly decreases cliqueUB - cliqueLB and keeps
\* cliqueLB <= cliqueUB, and the loop is left with cliqueLB = cliqueUB.
C3_SearchTerminates ==
    /\ [][pc = "join" /\ pc' # "join"
            => /\ cliqueLB' <= cliqueUB'
               /\ cliqueUB' - cliqueLB' < cliqueUB - cliqueLB]_vars
    /\ [](pc = "done" => cliqueLB = cliqueUB)
    /\ (pc = "join") ~> RoundOver
    /\ (pc = "loop") ~> (pc = "done")

\* a search that saw a round that found a clique and a round that did not
C3_Witness ==
    pc = "done" /\ cliqueLB > graph.cliqueLB /\ cliqueUB < graph.cliqueUB

\* C4: whatever the number of workers and their interleaving, a round ends
\* with cliqueFlag equal to the outcome of a sequential scan of the pivots,
\* and the final cliqueUB is the one of the sequential search.
C4_InterleavingIndependent ==
    /\ RoundOver => cliqueFlag = SequentialScan(clq, 0)
    /\ pc = "done" =>
          cliqueUB = SequentialSearch(graph.cliqueLB, graph.cliqueUB, graph.cliqueUB)

\* two workers ended a round in which one of them found a clique while the
\* other was past its first pivot
C4_Witness ==
    /\ RoundOver /\ numThreads >= 2 /\ cliqueFlag
    /\ \E t \in Threads : wi[t] >= numThreads

\* C5: ordering is a permutation of 0..n-1 and ordering[i] has minimum
\* degree in the subgraph induced by ordering[i], ..., ordering[n-1].
C5_MinDegreeOrdering ==
    Returned =>
        /\ {graph.ordering[i] : i \in 0..(graph.n - 1)} = 0..(graph.n - 1)
        /\ \A i \in 0..(graph.n - 1) : \A w \in Suffix(i) :
               ResidualDegree(i, graph.ordering[i]) <= ResidualDegree(i, w)

\* an ordering that is not the identity, of a graph whose degrees differ
C5_Witness ==
    /\ Returned /\ graph.n >= 4
    /\ \E i \in 0..(graph.n - 1) : graph.ordering[i] # i
    /\ \E v, w \in 0..(graph.n - 1) : graph.degree[v] + 2 <= graph.degree[w]

\* C6: position is the inverse of ordering, rightDegree[v] is the number of
\* neighbours of v placed after v, and d is the largest rightDegree.
C6_PositionRightDegree ==
    Returned =>
        /\ \A i \in 0..(graph.n - 1) : graph.position[graph.ordering[i]] = i
        /\ \A v \in 0..(graph.n - 1) :
               graph.rightDegree[v] = Cardinality(RightNeighbors(v))
        /\ \E v \in 0..(graph.n - 1) : graph.rightDegree[v] = graph.d
        /\ \A v \in 0..(graph.n - 1) : graph.rightDegree[v] <= graph.d

\* a vertex with neighbours on both sides, in a graph of degeneracy >= 2
C6_Witness ==
    /\ Returned /\ graph.d >= 2
    /\ \E v \in 0..(graph.n - 1) :
          0 < graph.rightDegree[v] /\ graph.rightDegree[v] < graph.degree[v]

\* C7: a generated subgraphs[v] has the vertices {v} and N_R(v), v at
\* position 0, n = rightDegree[v] + 1, and q in adjLists[p] exactly for the
\* distinct positions p, q whose vertices are not adjacent in G.
C7_ComplementOfRightNeighbors ==
    Returned =>
        \A v \in 0..(graph.n - 1) :
            Materialised(v) =>
                LET sg == subgraphs[v]
                    name(p) == sg.vertices[p].v
                IN /\ sg.n = graph.rightDegree[v] + 1
                   /\ name(0) = v
                   /\ {name(p) : p \in 0..(sg.n - 1)} = {v} \cup RightNeighbors(v)
                   /\ \A p, q \in 0..(sg.n - 1) :
                         p # q => ((q \in Range(sg.adjLists[p]))
                                    <=> ~Adjacent(graph, name(p), name(q)))

\* a generated subgraph with at least three vertices and a complement edge
C7_Witness ==
    /\ Returned
    /\ \E v \in 0..(graph.n - 1) :
          subgraphs[v].created /\ subgraphs[v].n >= 3 /\ subgraphs[v].m >= 1

\* C8: Buss::getKernel with h = 0 and k >= 0 returns -1 only if the subgraph
\* has no vertex cover of size <= k, and +1 only if it has one.
C8_BussAnswerPreserving ==
    (call = "Buss" /\ arg.k >= 0) =>
        /\ ret.success = -1 => ~HasVertexCover(arg.sG, arg.k)
        /\ ret.success = 1 => HasVertexCover(arg.sG, arg.k)

\* C9: NemhauserTrotter::getKernel with k >= 0 returns -1 only if the
\* subgraph has no vertex cover of size <= k, +1 only if it has one, and on 0
\* the subgraph has one iff the kernel has one of size <= k - numInVC.
C9_NTAnswerPreserving ==
    (call = "NT" /\ arg.k >= 0) =>
        /\ ret.success = -1 => ~HasVertexCover(arg.sG, arg.k)
        /\ ret.success = 1 => HasVertexCover(arg.sG, arg.k)
        /\ ret.success = 0 =>
              (HasVertexCover(arg.sG, arg.k)
                 <=> HasVertexCover(ret.kernel, arg.k - ret.numInVC))

\* C11: over the whole run a slot that has been built never changes again,
\* no two workers are in generateCompGraphRightNeighbors for the same vertex,
\* and no worker writes a member of a slot that another worker reads or
\* writes at the same time.
C11_SlotBuiltOnce ==
    /\ [](pc = "join" =>
            \A t1, t2 \in Threads :
                t1 # t2 =>
                    /\ ~(Building(t1) /\ Building(t2) /\ PivotOf(t1) = PivotOf(t2))
                    /\ SlotWrites(t1) \cap (SlotReads(t2) \cup SlotWrites(t2)) = {})
    /\ [][Returned =>
            \A v \in DOMAIN subgraphs :
                Materialised(v) => subgraphs'[v] = subgraphs[v]]_vars

\* two workers build slots at the same time, and one of them reads the
\* vertex list of the slot the other is writing
C11_Witness ==
    /\ pc = "join"
    /\ \E t1, t2 \in Threads :
          /\ t1 # t2 /\ wpc[t1] = "build" /\ wpc[t2] = "build"
          /\ PivotOf(t2) \in ListedIn(PivotOf(t1))

\* sum of the degree members of the vertices at positions 0..p
RECURSIVE DegreeSum(_, _)
DegreeSum(sG, p) ==
    IF p < 0 THEN 0 ELSE sG.vertices[p].degree + DegreeSum(sG, p - 1)

\* a simple graph with ascending, symmetric lists and consistent counts
WellFormed(sG) ==
    /\ DOMAIN sG.adjLists = 0..(sG.n - 1)
    /\ DOMAIN sG.vertices = 0..(sG.n - 1)
    /\ \A p \in 0..(sG.n - 1) :
          LET list == sG.adjLists[p]
          IN /\ \A j \in 1..Len(list) : list[j] \in 0..(sG.n - 1) /\ list[j] # p
             /\ \A j \in 1..(Len(list) - 1) : list[j] < list[j + 1]
             /\ \A j \in 1..Len(list) : p \in Range(sG.adjLists[list[j]])
             /\ sG.vertices[p].degree = Len(list)
    /\ DegreeSum(sG, sG.n - 1) = 2 * sG.m

\* C12: the materialised complement subgraphs, the Buss kernel and the
\* Nemhauser-Trotter kernel are simple, their lists are ascending and
\* symmetric, every degree member is the length of its list and the degrees
\* sum to 2 * m.
C12_SubgraphsWellFormed ==
    /\ Returned => \A v \in DOMAIN subgraphs :
                       Materialised(v) => WellFormed(subgraphs[v])
    /\ (call \in {"Buss", "NT"} /\ ret.success = 0) => WellFormed(ret.kernel)

\* a Nemhauser-Trotter kernel that subgraphUpdate built after vertices were
\* removed, with edges left in it
C12_Witness ==
    call = "NT" /\ ret.success = 0 /\ ret.numRemoved > 0 /\ ret.kernel.m >= 5

\* C13: the process ends with status 0 when the run succeeds, and with a
\* non-zero status when fewer than three arguments are given or the file
\* cannot be opened or read (a header with n * m = 0 included).
C13_ExitStatus ==
    pc \in {"exit", "aborted"} =>
        /\ (argc < 4 \/ argv.file.status # "graph") => exitStatus # "0"
        /\ (pc = "exit" /\ argc >= 4 /\ argv.file.status = "graph") => exitStatus = "0"

\* no round of the search has ended yet
FirstRound == cliqueLB = graph.cliqueLB /\ cliqueUB = graph.cliqueUB

\* C14: in every round, the first included, the candidate handed to the
\* workers is ceil((cliqueLB + cliqueUB) / 2) for the bounds at the start of
\* the round.
C14_CandidateIsMidpoint ==
    pc = "join" => clq = (cliqueLB + cliqueUB + 1) \div 2

\* C14, amended: the candidate of the first round is cliqueUB; in every
\* later round it is ceil((cliqueLB + cliqueUB) / 2) for the bounds at the
\* start of the round.
C14_CandidateAfterFirstRound ==
    pc = "join" =>
        clq = IF FirstRound THEN cliqueUB ELSE (cliqueLB + cliqueUB + 1) \div 2

\* a later round of a search whose first round did not start at the midpoint
C14_Witness ==
    /\ pc = "join" /\ ~FirstRound
    /\ graph.cliqueUB - graph.cliqueLB >= 2

\* the scan indices at which the vertex being removed is adjacent to all
\* the vertices after it
CliqueEvents ==
    {i \in 0..(graph.n - 1) : graph.rightDegree[graph.ordering[i]] = graph.n - i - 1}

\* C15: degeneracyOrdering leaves cliqueLB = n - i0 >= 1, where i0 is the
\* first scan index whose vertex has residual degree n - i - 1, and the
\* vertices ordering[i0], ..., ordering[n-1] are pairwise adjacent.
C15_LowerBoundIsFirstClique ==
    Returned =>
        /\ CliqueEvents # {}
        /\ LET i0 == CHOOSE i \in CliqueEvents : \A j \in CliqueEvents : i <= j
           IN /\ graph.cliqueLB = graph.n - i0
              /\ graph.cliqueLB >= 1
              /\ IsClique(graph, Suffix(i0))

\* the lower bound is a clique of three or more vertices that is found
\* after other vertices were removed
C15_Witness ==
    Returned /\ graph.cliqueLB >= 3 /\ graph.n > graph.cliqueLB

\* the d-core: the vertices from the first scan index whose vertex has right
\* degree d, its regularity and its connected components
CoreStart ==
    CHOOSE i \in 0..(graph.n - 1) :
        /\ graph.rightDegree[graph.ordering[i]] = graph.d
        /\ \A j \in 0..(i - 1) : graph.rightDegree[graph.ordering[j]] # graph.d

CoreRegular ==
    \A v \in Suffix(CoreStart) : ResidualDegree(CoreStart, v) = graph.d

RECURSIVE CoreComponent(_)
CoreComponent(S) ==
    LET T == S \cup {w \in Suffix(CoreStart) : \E v \in S : Adjacent(graph, v, w)}
    IN IF T = S THEN S ELSE CoreComponent(T)

CoreHasCliqueSizedComponent ==
    \E v \in Suffix(CoreStart) : Cardinality(CoreComponent({v})) = graph.d + 1

C17_HighDegreeCountedOnce ==
    call = "Buss" =>
        /\ ret.highDegVertices = Cardinality({p \in DOMAIN ret.marked : ret.marked[p]})
        /\ \A j \in 1..(Len(ret.passes) - 1) : ret.passes[j] > 0

\* the removals of the last call of NemhauserTrotter::getKernel: R-copies are
\* the members n, ..., 2n - 1 of a component
ThroughRCopy(e) == e.member >= arg.sG.n

RemovedOnce ==
    /\ \A j \in 1..Len(ret.log) : ret.log[j].numRemoved = 1
    /\ \A v \in 0..(arg.sG.n - 1) :
          Cardinality({j \in 1..Len(ret.log) : ret.log[j].member % arg.sG.n = v})
              = IF ret.removed[v + 1] THEN 1 ELSE 0
    /\ ret.numRemoved = Len(ret.log)

\* C18: a vertex removed through its R-copy increments numInVC by one,
\* whatever the size of the component, a vertex removed through its L-copy
\* leaves numInVC unchanged, and every removed vertex increments numRemoved
\* exactly once.
C18_CoverCountByCopy ==
    call = "NT" =>
        /\ \A j \in 1..Len(ret.log) :
              ret.log[j].numInVC = IF ThroughRCopy(ret.log[j]) THEN 1 ELSE 0
        /\ RemovedOnce

\* C18, amended: a vertex removed through its R-copy in a component of two
\* or more members increments numInVC by one; a vertex removed through a
\* single-member component or through its L-copy leaves numInVC unchanged;
\* every removed vertex increments numRemoved exactly once.
C18_CoverCountByCopyAndSize ==
    call = "NT" =>
        /\ \A j \in 1..Len(ret.log) :
              ret.log[j].numInVC = IF ThroughRCopy(ret.log[j]) /\ ret.log[j].size >= 2
                                   THEN 1 ELSE 0
        /\ RemovedOnce
        /\ ret.numInVC = Cardinality({j \in 1..Len(ret.log) :
                              ThroughRCopy(ret.log[j]) /\ ret.log[j].size >= 2})

\* a call that removes vertices in all three ways
C18_Witness ==
    /\ call = "NT"
    /\ \E j \in 1..Len(ret.log) : ThroughRCopy(ret.log[j]) /\ ret.log[j].size >= 2
    /\ \E j \in 1..Len(ret.log) : ThroughRCopy(ret.log[j]) /\ ret.log[j].size = 1
    /\ \E j \in 1..Len(ret.log) : ~ThroughRCopy(ret.log[j])

\* the digraph D of the last call of NemhauserTrotter::getKernel on the
\* copies 0..n-1 (L) and n..2n-1 (R): an arc from the L-copy of u to the
\* R-copy of each neighbour of u, and from a matched R-copy to its partner
Successors(x) ==
    IF x < arg.sG.n
    THEN {w + arg.sG.n : w \in Range(arg.sG.adjLists[x])}
    ELSE IF ret.matchR[x - arg.sG.n + 1] >= 0
         THEN {ret.matchR[x - arg.sG.n + 1]}
         ELSE {}

RECURSIVE ReachableFrom(_)
ReachableFrom(S) ==
    LET T == S \cup UNION {Successors(x) : x \in S}
    IN IF T = S THEN S ELSE ReachableFrom(T)

StronglyConnected(x) == {y \in ReachableFrom({x}) : x \in ReachableFrom({y})}

BothCopiesIn(C) == \E v \in 0..(arg.sG.n - 1) : v \in C /\ v + arg.sG.n \in C

\* C19: the components Tarjan finds are strongly connected components of D,
\* toBeRemoved is false exactly for those that hold both copies of some
\* vertex, and a vertex whose two copies are in one strongly connected
\* component is not removed by getKernel.
C19_MixedComponentsKept ==
    call = "NT" =>
        /\ \A c \in 1..Len(ret.components) :
              /\ \A x \in Range(ret.components[c]) :
                    Range(ret.components[c]) = StronglyConnected(x)
              /\ ret.toBeRemoved[c] = ~BothCopiesIn(Range(ret.components[c]))
        /\ \A v \in 0..(arg.sG.n - 1) :
              v + arg.sG.n \in StronglyConnected(v) => ~ret.removed[v + 1]

\* a call that finds a component with both copies of a vertex and removes
\* another component
C19_Witness ==
    /\ call = "NT"
    /\ \E c \in 1..Len(ret.components) : ~ret.toBeRemoved[c]
    /\ \E v \in 0..(arg.sG.n - 1) : v + arg.sG.n \in StronglyConnected(v)
    /\ ret.numRemoved > 0

\* the components (numbered from 0) that component p has an arc to in D
ComponentOf(x) == ret.componentMap[x + 1]

SuccessorComponents(p) ==
    {ComponentOf(y) : y \in UNION {Successors(x) : x \in Range(ret.components[p + 1])}}
        \ {p}

\* C20: before the first sweep and after every component the removal loop
\* deals with, compOutDegree[p] is the number of successor components of p
\* that are not removed; when the loop ends, no unremoved component with
\* toBeRemoved set has all its successor components removed.
C20_OutDegreeCountsLiveSuccessors ==
    call = "NT" =>
        /\ \A s \in 1..Len(ret.steps) : \A p \in 0..(Len(ret.components) - 1) :
              ret.steps[s].compOutDegree[p + 1] =
                  Cardinality({q \in SuccessorComponents(p) :
                                  ~ret.steps[s].compRemoved[q + 1]})
        /\ \A p \in 0..(Len(ret.components) - 1) :
              LET last == ret.steps[Len(ret.steps)]
              IN ~(/\ ~last.compRemoved[p + 1]
                   /\ ret.toBeRemoved[p + 1]
                   /\ \A q \in SuccessorComponents(p) : last.compRemoved[q + 1])

\* the bipartite double cover of the subgraph of the last call: an edge from
\* the L-copy u to the R-copy w + n for every entry w of adjLists[u]
DoubleCoverEdges ==
    {<<u, w + arg.sG.n>> : u \in 0..(arg.sG.n - 1), w \in 0..(arg.sG.n - 1)}
        \cap {e \in (0..(arg.sG.n - 1)) \X (arg.sG.n..(2 * arg.sG.n - 1)) :
                  e[2] - arg.sG.n \in Range(arg.sG.adjLists[e[1]])}

MinDoubleCover ==
    LET sizes == {Cardinality(C) : C \in {D \in SUBSET (0..(2 * arg.sG.n - 1)) :
                      \A e \in DoubleCoverEdges : e[1] \in D \/ e[2] \in D}}
    IN CHOOSE x \in sizes : \A y \in sizes : x <= y

MatchedPairs == {u \in 0..(arg.sG.n - 1) : ret.matchL[u + 1] # Unmatched}

\* C21: after HopcroftKarp, matchL[u] = v iff matchR[v] = u, every matched
\* pair is an edge of the subgraph, and the number of matched pairs is the
\* size of a minimum vertex cover of the double cover.
C21_MatchingIsMaximum ==
    call = "NT" =>
        /\ \A u \in 0..(arg.sG.n - 1) : \A v \in 0..(arg.sG.n - 1) :
              ret.matchL[u + 1] = v <=> ret.matchR[v + 1] = u
        /\ \A u \in MatchedPairs : ret.matchL[u + 1] \in Range(arg.sG.adjLists[u])
        /\ Cardinality(MatchedPairs) = MinDoubleCover

\* a matching of three or more pairs that leaves a vertex unmatched
C21_Witness ==
    /\ call = "NT"
    /\ Cardinality(MatchedPairs) >= 3
    /\ Cardinality(MatchedPairs) < arg.sG.n

\* the graph a state s of degreePreprocessing stands for: the positions not
\* removed and, for each, the entries of its list that are not removed
LiveVertices(s) == {q \in 0..(Len(s.removed) - 1) : ~s.removed[q + 1]}

LiveList(s, q) == SelectSeq(s.adjLists[q + 1], LAMBDA w : ~s.removed[w + 1])

HasLiveCover(s, k) ==
    \E C \in SUBSET LiveVertices(s) :
        /\ Cardinality(C) <= k
        /\ \A q \in LiveVertices(s) : \A w \in Range(LiveList(s, q)) :
              q \in C \/ w \in C

LiveAdjacencySimple(s) ==
    \A q \in LiveVertices(s) :
        LET list == LiveList(s, q)
        IN /\ \A j \in 1..(Len(list) - 1) : list[j] < list[j + 1]
           /\ \A j \in 1..Len(list) : list[j] # q /\ q \in Range(LiveList(s, list[j]))

Folds == {j \in 1..Len(ret.hist) : ret.hist[j].rule = "fold"}

\* C22: a fold of a degree-2 vertex with non-adjacent neighbours decreases
\* newK by one and keeps the answer (the graph after has a cover of size
\* <= newK - 1 iff the graph before has one of size <= newK), and the live
\* adjacency after the fold is sorted, symmetric, without duplicates or
\* self-loops.
C22_FoldPreservesAnswer ==
    call = "DP" =>
        \A j \in Folds :
            /\ ret.hist[j].post.newK = ret.hist[j].pre.newK - 1
            /\ HasLiveCover(ret.hist[j].post, ret.hist[j].pre.newK - 1)
                  <=> HasLiveCover(ret.hist[j].pre, ret.hist[j].pre.newK)
            /\ LiveAdjacencySimple(ret.hist[j].post)

\* a fold that gives the folded vertex two or more neighbours and leaves a
\* graph that can be covered
C22_Witness ==
    /\ call = "DP"
    /\ \E j \in Folds :
          /\ Len(LiveList(ret.hist[j].post, ret.hist[j].vertex)) >= 2
          /\ HasLiveCover(ret.hist[j].post, ret.hist[j].post.newK)

HasLiveEdge(s) == \E q \in LiveVertices(s) : LiveList(s, q) # <<>>

\* C23: degreePreprocessing answers +1 only when the vertices not removed
\* are at most newK; it answers -1 with newK <= 0 only when newK < 0 or
\* newK = 0 and an edge between vertices not removed is left, so that the
\* rest has no cover of size <= newK.
C23_AnswersJustified ==
    call = "DP" =>
        /\ ret.success = 1 => Cardinality(LiveVertices(ret.final)) <= ret.newK
        /\ (ret.success = -1 /\ ret.newK <= 0) =>
              /\ ret.newK < 0 \/ (ret.newK = 0 /\ HasLiveEdge(ret.final))
              /\ ~HasLiveCover(ret.final, ret.newK)

\* the two answers after the reduction loop has removed vertices
C23_Witness ==
    /\ call = "DP"
    /\ Len(ret.hist) > 0
    /\ \/ ret.success = 1 /\ ret.newK >= 1 /\ LiveVertices(ret.final) # {}
       \/ ret.success = -1 /\ ret.newK <= 0 /\ arg.k >= 2

\* C24: every call of kVertexCover terminates: the reduction loop of each
\* call runs at most n + 1 passes, each recursive call is made with a
\* parameter strictly smaller than its caller's k and with strictly fewer
\* vertices, and no call is nested deeper than the k of the outermost call
C24_RecursionDescends ==
    call = "VC" =>
        \A j \in 1..Len(ret.calls) :
            /\ ret.calls[j].passes <= ret.calls[j].n + 1
            /\ ret.calls[j].depth = 0 =>
                   ret.calls[j].n = arg.sG.n /\ ret.calls[j].k = arg.k
            /\ ret.calls[j].depth >= 1 =>
                   /\ ret.calls[j].k < ret.calls[j].caller.k
                   /\ ret.calls[j].n < ret.calls[j].caller.n
                   /\ ret.calls[j].n >= 0
                   /\ ret.calls[j].depth <= arg.k

\* a call nested two deep whose own reduction loop made a pass
C24_Witness ==
    /\ call = "VC"
    /\ \E j \in 1..Len(ret.calls) :
           ret.calls[j].depth >= 2 /\ ret.calls[j].passes >= 1

\* C25: while the threads of a round run, cliqueFlag changes only from false
\* to true; it is set back to false only by findMaxClique, in a step taken
\* when every thread of the previous round has been joined and no thread of
\* the next round has started
C25_FlagMonotoneInRound ==
    [][/\ (pc = "join" /\ cliqueFlag) => cliqueFlag'
       /\ (cliqueFlag /\ ~cliqueFlag') =>
              /\ pc = "loop"
              /\ \A t \in Threads : wpc[t] = "idle"
              /\ pc' = "join"
              /\ \A t \in Threads : wpc'[t] = "top" /\ wi'[t] = FirstPivot(t)
       /\ (~cliqueFlag /\ cliqueFlag') =>
              /\ pc = "join"
              /\ \E t \in Threads : wpc[t] = "body" /\ wpc'[t] = "exit"]_vars

\* the flag is set while another thread of the round is still inside its pivot
C25_Witness ==
    /\ pc = "join"
    /\ cliqueFlag
    /\ \E t \in Threads : wpc[t] = "body"
    /\ \E t \in Threads : wpc[t] = "exit"

\* a round that found a clique is over and the next round has not begun: the
\* flag still holds true when findMaxClique is about to reset it
C25_ResetPending == pc = "loop" /\ cliqueFlag

\* C26: a thread that evaluates its loop condition while cliqueFlag is true
\* starts no further pivot and leaves the loop; once cliqueFlag is true in a
\* round, no thread moves on to another pivot and every thread of the round
\* terminates
C26_FlagStopsThreads ==
    /\ [][\A t \in Threads :
             /\ (pc = "join" /\ cliqueFlag /\ wpc[t] = "top" /\ wpc'[t] # "top")
                    => wpc'[t] = "exit"
             /\ (pc = "join" /\ cliqueFlag /\ wpc'[t] = "pivot")
                    => (wpc[t] = "pivot" /\ wi'[t] = wi[t])
             /\ (pc = "join" /\ cliqueFlag /\ wi'[t] # wi[t])
                    => (wpc[t] = "body" /\ wpc'[t] = "top")]_vars
    /\ \A t \in 0..(MaxThreads - 1) :
           (pc = "join" /\ cliqueFlag /\ t \in Threads)
               ~> (t \in Threads /\ wpc[t] \in {"exit", "idle"})

\* the flag is true while a thread that still has an eligible pivot ahead is
\* about to evaluate its loop condition
C26_Witness ==
    /\ pc = "join"
    /\ cliqueFlag
    /\ \E t \in Threads :
           /\ wpc[t] = "top"
           /\ wi[t] >= numThreads
           /\ wi[t] < graph.n
           /\ ParameterOf(t) >= 0

\* the pivot at index i of sortedList is eligible for the candidate clq
EligibleAt(i) == graph.rightDegree[sortedList[i]] + 1 >= clq

\* C27: sortedList is a permutation of 0..n-1 in descending order of
\* rightDegree; thread t stands only on the indices t, t + W, t + 2W, ... and
\* moves from one to the next; and when a round ends without cliqueFlag set,
\* every vertex v with rightDegree[v] + 1 >= clq has been processed, by the
\* one thread whose indices include the index of v
C27_PivotsPartitioned ==
    /\ [](pc \in {"loop", "join"} =>
            /\ DOMAIN sortedList = 0..(graph.n - 1)
            /\ {sortedList[i] : i \in 0..(graph.n - 1)} = 0..(graph.n - 1)
            /\ \A i \in 0..(graph.n - 1) : \A j \in i..(graph.n - 1) :
                   graph.rightDegree[sortedList[i]] >= graph.rightDegree[sortedList[j]])
    /\ [](pc = "join" =>
            \A t \in Threads : wi[t] >= t /\ (wi[t] - t) % numThreads = 0)
    /\ [][pc = "join" =>
            \A t \in Threads :
                wi'[t] # wi[t] =>
                    /\ wi'[t] = wi[t] + numThreads
                    /\ wpc[t] = "body"
                    /\ \A u \in Threads \ {t} : wi'[u] = wi[u]]_vars
    /\ []((pc = "join" /\ ~cliqueFlag /\ \A t \in Threads : wpc[t] = "exit") =>
            \A i \in 0..(graph.n - 1) :
                EligibleAt(i) => wi[i % numThreads] > i)

\* a round of two threads ends without a clique: one thread went through two
\* pivots or more, and a pivot that is not eligible stopped a thread
C27_Witness ==
    /\ pc = "join"
    /\ numThreads = 2
    /\ ~cliqueFlag
    /\ \A t \in Threads : wpc[t] = "exit"
    /\ \E t \in Threads : wi[t] >= t + 2 * numThreads
    /\ \E t \in Threads : wi[t] < graph.n /\ ~EligibleAt(wi[t])

\* the lists, the degrees and the edge count of subgraphs[v] are those of the
\* complement of G on v and its right neighbours
SlotBuilt(v) ==
    /\ WellFormed(subgraphs[v])
    /\ \A p, q \in 0..(subgraphs[v].n - 1) :
           p # q => ((q \in Range(subgraphs[v].adjLists[p]))
                      <=> ~Adjacent(graph, subgraphs[v].vertices[p].v,
                                    subgraphs[v].vertices[q].v))

\* C28: in every reachable state subgraphs[v].created = true implies that the
\* adjacency lists, the degrees and the edge count of subgraphs[v] are
\* completely built (created is the last member written), and a thread reads
\* the other members of a slot only after it has seen created = true
C28_CreatedPublishesSlot ==
    Returned =>
        /\ \A v \in 0..(graph.n - 1) : subgraphs[v].created => SlotBuilt(v)
        /\ pc = "join" =>
               \A t \in Threads : wpc[t] = "body" => subgraphs[PivotOf(t)].created

\* in the state s of degreePreprocessing every vertex not removed has as many
\* entries not removed in its list as degree - degDecrease says
DegreesTracked(degree, s) ==
    \A q \in LiveVertices(s) :
        Len(LiveList(s, q)) = degree[q + 1] - s.degDecrease[q + 1]

\* the same before and after every rule of a call and when its loop has ended
TrackedThroughout(degree, hist, final) ==
    /\ \A j \in 1..Len(hist) :
           DegreesTracked(degree, hist[j].pre) /\ DegreesTracked(degree, hist[j].post)
    /\ DegreesTracked(degree, final)

\* the degree members a direct call is given
ArgDegrees == [q \in 1..arg.sG.n |-> arg.sG.vertices[q - 1].degree]

\* C29: throughout degreePreprocessing (before and after every rule that is
\* applied, and when the reduction loop has ended), in a direct call and in
\* every call kVertexCover makes, the number of entries not removed in
\* adjLists[v] is vertices[v].degree - degDecrease[v] for every vertex v not
\* removed, so that the kernel's lists are allocated with the size that is
\* written to them
C29_DegreesTracked ==
    /\ call = "DP" =>
           /\ TrackedThroughout(ArgDegrees, ret.hist, ret.final)
           /\ ret.success = 0 =>
                  \A c \in 1..ret.kernel.n :
                      ret.kernel.vertices[c].degree = Len(ret.kernel.adjLists[c])
    /\ call = "VC" =>
           \A j \in 1..Len(ret.calls) :
               TrackedThroughout(ret.calls[j].degree, ret.calls[j].hist,
                                 ret.calls[j].final)

\* a kernel is generated after a fold that made the degree of the folded
\* vertex grow
C29_Witness ==
    /\ call = "DP"
    /\ ret.success = 0
    /\ \E j \in Folds : ret.hist[j].post.degDecrease[ret.hist[j].vertex + 1] < 0

\* the connected component of v in the subgraph of G induced by the vertices
\* at positions >= first
RECURSIVE ComponentFrom(_, _)
ComponentFrom(first, S) ==
    LET T == S \cup {w \in 0..(graph.n - 1) :
                        /\ graph.position[w] >= first
                        /\ \E v \in S : Adjacent(graph, v, w)}
    IN IF T = S THEN S ELSE ComponentFrom(first, T)

\* C30: in the search that tightens cliqueUB, every vertex is written to S at
\* most once, the number of entries written to S (tail) is at most n, and
\* every count that is compared with d + 1 is the size of the connected
\* component of its root in the subgraph induced by the positions >= dRegular
C30_SearchQueueBounded ==
    (Returned /\ graph.search.ran) =>
        /\ \A i, j \in 1..Len(graph.search.S) :
               graph.search.S[i] = graph.search.S[j] => i = j
        /\ Len(graph.search.S) <= graph.n
        /\ \A c \in 1..Len(graph.search.counts) :
               graph.search.counts[c].count =
                   Cardinality(ComponentFrom(graph.search.dRegular,
                                             {graph.search.counts[c].root}))

\* C10: kVertexCover returns true exactly when the graph has a vertex cover
\* of size <= k, for every integer k.
C10_KVertexCoverExact ==
    call = "VC" => (ret.found = HasVertexCover(arg.sG, arg.k))

\* the solver answered true for a cubic graph, which it has to branch on
C10_Witness ==
    call = "VC" /\ ret.found = TRUE /\ arg.sG = K33 /\ arg.k = 3

====
